---- MODULE Spec2Model ----
(***************************************************************************)
(* A model of the terminal emulator of shell-design: the key translator    *)
(* (src/terminal/input.rs), the orchestrator's lifecycle and event loop    *)
(* (src/terminal/mod.rs, src/main.rs), the PTY channel with its reader     *)
(* thread (src/terminal/pty.rs) and the renderer's state                   *)
(* (src/terminal/renderer.rs).                                             *)
(***************************************************************************)
EXTENDS Integers, Sequences, FiniteSets, TLC

VARIABLES
    pc,              \* position of the main thread (main -> Terminal::new -> Terminal::run)
    result,          \* the Result travelling up to main: "none", "ok" or the error's name
    exitStatus,      \* process exit status, -1 while the process lives
    diagnostic,      \* whether main printed "Terminal Error: ..."
    rawMode,         \* the real terminal is in raw mode
    altScreen,       \* the real terminal shows the alternate screen
    disableRawCalls, \* number of disable_raw_mode() calls made
    leaveAltCalls,   \* number of LeaveAlternateScreen commands executed
    term,            \* Terminal {width, height, running, current_dir}
    COUNTER,         \* static mut COUNTER of Terminal::run
    event,           \* the InputEvent the current iteration matched on; NotPolled before
    input_bytes,     \* local input_bytes of the Key branch; NotTranslated when unassigned
    ptyWritten,      \* every byte written (and flushed) to the PTY writer, in order
    ptySize,         \* the PtySize the PTY master holds
    renderer,        \* TerminalRenderer {width, height, title, show_status_bar, raw_mode, parser}
    rendererLock,    \* owner of the Mutex<TerminalRenderer>: "free", "main", "reader"
    ptyReaderLock,   \* owner of TerminalPty.reader's Mutex: 0 when free, else the
                     \*   index of the reader thread that holds it
    readers,         \* the reader threads spawned so far, each {pc, end, buffer}:
                     \*   pc      position of the thread: "read" (before reader.lock()),
                     \*           "reading" (inside reader.read), "callback", "process", "done"
                     \*   end     why it ended: "none", "eof", "error"
                     \*   buffer  the bytes of its last non-empty read, buffer[..n]
    childOut,        \* every byte the child writes to the PTY in this run, in order
    consumed,        \* how many bytes of childOut the PTY reader has handed out
    frame,           \* the terminal commands queued by the render() under examination
    itersAfterEof,   \* history: loop iterations begun after the reader saw EOF (saturating)
    line,            \* the command line the child (the shell of --shell-mode) has read
    command,         \* what Command::try_from made of it; NotParsed before
    stdin,           \* the lines of the child's standard input not read yet; its
                     \*   end follows the last of them
    shellOut,        \* what the child's loop has printed, in order: "prompt",
                     \*   "help", "Error" (a failed line), "result" (a command's
                     \*   own output), "Goodbye"
    stderr,          \* the lines the raw-debug echo printed, in order, in the
                     \*   process_output calls under examination
    twin             \* the renderer of a second run that is given the same
                     \*   process_output and resize calls as renderer but its own
                     \*   toggle_raw_mode calls (followed in SpecEcho only)

vars == <<pc, result, exitStatus, diagnostic, rawMode, altScreen, disableRawCalls,
          leaveAltCalls, term, COUNTER, event, input_bytes, ptyWritten, ptySize,
          renderer, rendererLock, ptyReaderLock, readers, childOut, consumed, frame,
          itersAfterEof, line, command, stdin, shellOut, stderr, twin>>

shellVars == <<line, command, stdin, shellOut>>

echoVars == <<stderr, twin>>

(***************************************************************************)
(* Key events (crossterm KeyEvent): a key code and a set of modifiers.     *)
(* kind "Char" carries the character's code point in arg, kind "F" the     *)
(* function key number (u8) in arg.                                        *)
(***************************************************************************)
Modifiers == {"CONTROL", "SHIFT", "ALT"}

PlainKinds == {"Enter", "Tab", "Backspace", "Esc", "Up", "Down", "Right", "Left",
               "Home", "End", "PageUp", "PageDown", "Delete", "Insert"}

\* key codes of crossterm that process_key_input has no arm for
OtherKinds == {"BackTab", "Null", "CapsLock"}

\* code points the checks draw characters from: digits, punctuation next to
\* the letter ranges, letters of both cases, Latin-1 and beyond one byte
CodePoints == {32, 49, 64, 65, 66, 81, 82, 90, 91, 96, 97, 98, 113, 114, 122, 123,
               126, 233, 353, 8364}

FNumbers == (0 .. 14) \cup {255}

Key(kind, arg, mods) == [kind |-> kind, arg |-> arg, mods |-> mods]

AllKeys ==
    {Key("Char", c, m) : c \in CodePoints, m \in SUBSET Modifiers}
    \cup {Key("F", n, m) : n \in FNumbers, m \in SUBSET Modifiers}
    \cup {Key(k, 0, m) : k \in PlainKinds \cup OtherKinds, m \in SUBSET Modifiers}

\* `c as u8`: a char cast to u8 keeps the low 8 bits of the code point
AsU8(c) == c % 256

ESC == 27

char_input_wide_as_question_mark(key) ==
    IF "CONTROL" \in key.mods /\ key.arg >= 97 /\ key.arg <= 122
    THEN <<AsU8(key.arg) - 97 + 1>>
    ELSE IF "CONTROL" \in key.mods /\ key.arg >= 65 /\ key.arg <= 90
    THEN <<AsU8(key.arg) - 65 + 1>>
    ELSE IF key.arg > 255 THEN <<63>>
    ELSE <<AsU8(key.arg)>>

\* InputHandler::process_key_input, the KeyCode::Char(c) arm
char_input_no_upper(key) ==
    IF "CONTROL" \in key.mods /\ key.arg >= 97 /\ key.arg <= 122
    THEN <<AsU8(key.arg) - 97 + 1>>
    ELSE <<AsU8(key.arg)>>

char_input_ctrl_dropped(key) ==
    IF "CONTROL" \in key.mods
    THEN IF key.arg >= 97 /\ key.arg <= 122
         THEN <<AsU8(key.arg) - 97 + 1>>
         ELSE IF key.arg >= 65 /\ key.arg <= 90
         THEN <<AsU8(key.arg) - 65 + 1>>
         ELSE <<>>
    ELSE <<AsU8(key.arg)>>

char_input(key) ==
    IF "CONTROL" \in key.mods /\ key.arg >= 97 /\ key.arg <= 122
    THEN <<AsU8(key.arg) - 97 + 1>>
    ELSE IF "CONTROL" \in key.mods /\ key.arg >= 65 /\ key.arg <= 90
    THEN <<AsU8(key.arg) - 65 + 1>>
    ELSE <<AsU8(key.arg)>>

\* InputHandler::process_key_input
process_key_input(key) ==
    CASE key.kind = "Char" -> char_input(key)
      [] key.kind = "Enter" -> <<13>>
      [] key.kind = "Tab" -> <<9>>
      [] key.kind = "Backspace" -> <<127>>
      [] key.kind = "Esc" -> <<ESC>>
      [] key.kind = "Up" -> <<ESC, 91, 65>>
      [] key.kind = "Down" -> <<ESC, 91, 66>>
      [] key.kind = "Right" -> <<ESC, 91, 67>>
      [] key.kind = "Left" -> <<ESC, 91, 68>>
      [] key.kind = "Home" -> <<ESC, 91, 72>>
      [] key.kind = "End" -> <<ESC, 91, 70>>
      [] key.kind = "PageUp" -> <<ESC, 91, 53, 126>>
      [] key.kind = "PageDown" -> <<ESC, 91, 54, 126>>
      [] key.kind = "Delete" -> <<ESC, 91, 51, 126>>
      [] key.kind = "Insert" -> <<ESC, 91, 50, 126>>
      [] key.kind = "F" ->
            CASE key.arg = 1 -> <<ESC, 79, 80>>
              [] key.arg = 2 -> <<ESC, 79, 81>>
              [] key.arg = 3 -> <<ESC, 79, 82>>
              [] key.arg = 4 -> <<ESC, 79, 83>>
              [] key.arg = 5 -> <<ESC, 91, 49, 53, 126>>
              [] key.arg = 6 -> <<ESC, 91, 49, 55, 126>>
              [] key.arg = 7 -> <<ESC, 91, 49, 56, 126>>
              [] key.arg = 8 -> <<ESC, 91, 49, 57, 126>>
              [] key.arg = 9 -> <<ESC, 91, 50, 48, 126>>
              [] key.arg = 10 -> <<ESC, 91, 50, 49, 126>>
              [] key.arg = 11 -> <<ESC, 91, 50, 51, 126>>
              [] key.arg = 12 -> <<ESC, 91, 50, 52, 126>>
              [] OTHER -> <<>>
      [] OTHER -> <<>>

(***************************************************************************)
(* Bounds of the model and the inputs the event loop is driven with.       *)
(***************************************************************************)
\* most bytes the model lets the session write to the PTY
MaxWritten == 1

\* most timeouts (InputEvent::None) the model lets the loop see
MaxTicks == 1

\* number of bytes the child writes during a session of the event loop
MaxFed == 1

\* let mut buffer = [0u8; 4096]: the most bytes one read returns
BufferSize == 4096

\* COUNTER % 100 == 0: the title is re-checked every hundredth timeout
TitleCadence == 100

\* (width, height) pairs crossterm reports: size() and Event::Resize
Sizes == {<<80, 24>>, <<100, 40>>, <<5, 0>>}

\* working directories and home directories, as strings of characters
StartDir == <<"/", "h", "/", "w">>

Dirs == {StartDir, <<"/", "t">>}

NoHome == <<"none">>

Homes == {NoHome, <<"/", "h">>}

CtrlQ == Key("Char", 113, {"CONTROL"})

CtrlB == Key("Char", 98, {"CONTROL"})

CtrlR == Key("Char", 114, {"CONTROL"})

\* the keys the event loop is driven with: the three shortcuts, a plain
\* character, Ctrl+'1' and F13
LoopKeys == {CtrlQ, CtrlB, CtrlR,
             Key("Char", 97, {}), Key("Char", 49, {"CONTROL"}), Key("F", 13, {})}

NoKey == Key("NoKey", 0, {})

KeyEvent(k) == [type |-> "Key", key |-> k, width |-> 0, height |-> 0]

ResizeEvent(w, h) == [type |-> "Resize", key |-> NoKey, width |-> w, height |-> h]

NoneEvent == [type |-> "None", key |-> NoKey, width |-> 0, height |-> 0]

\* poll_event returned Err: the match never got an event
PollError == [type |-> "Error", key |-> NoKey, width |-> 0, height |-> 0]

NotPolled == [type |-> "NotPolled", key |-> NoKey, width |-> 0, height |-> 0]

NotTranslated == <<-1>>

\* the child has parsed no command line yet
NotParsed == [ok |-> FALSE, name |-> "NotParsed", a |-> <<>>, b |-> <<>>]

(***************************************************************************)
(* The Screen Model behind the Parser: what the bytes fed to a Parser make *)
(* of its grid (section 4.2 of the specification: printable text with line *)
(* wrap and scrolling, carriage return, line feed, cursor position, colour *)
(* selection in its 8-colour, 256-colour and truecolor forms; any other    *)
(* sequence is ignored).  Colours are vt100::Color values.                 *)
(***************************************************************************)
Default == [kind |-> "Default", a |-> 0, b |-> 0, c |-> 0]

Idx(n) == [kind |-> "Idx", a |-> n, b |-> 0, c |-> 0]

Rgb(r, g, b) == [kind |-> "Rgb", a |-> r, b |-> g, c |-> b]

\* a cell nothing was written to
BlankCell == [ch |-> 0, fg |-> Default, bg |-> Default]

\* the modes of the interpreter: plain text, after ESC, inside ESC [ ...
VtModes == {"ground", "escape", "csi"}

\* the state of a Parser that was fed nothing: cells holds the written cells
vt_new ==
    [mode |-> "ground", params |-> <<>>, cur |-> 0, row |-> 0, col |-> 0,
     fg |-> Default, bg |-> Default, cells |-> <<>>]

\* the cursor moves one row down; at the last row the grid scrolls up
vt_next_row(st, rows) ==
    IF st.row + 1 < rows
    THEN [st EXCEPT !.row = st.row + 1]
    ELSE LET kept == {p \in DOMAIN st.cells : p[1] >= 1}
         IN  [st EXCEPT !.cells = [p \in {<<q[1] - 1, q[2]>> : q \in kept} |->
                                      st.cells[<<p[1] + 1, p[2]>>]]]

\* a printable byte: wrap when the row is full, write the cell, advance
vt_print(st, rows, cols, byte) ==
    IF rows = 0 \/ cols = 0
    THEN st
    ELSE LET at == IF st.col >= cols
                   THEN [vt_next_row(st, rows) EXCEPT !.col = 0]
                   ELSE st
             written == [ch |-> byte, fg |-> at.fg, bg |-> at.bg]
             pos == <<at.row, at.col>>
         IN  [at EXCEPT !.cells = [p \in DOMAIN at.cells \cup {pos} |->
                                      IF p = pos THEN written ELSE at.cells[p]],
                        !.col = at.col + 1]

\* SGR: the parameters of ESC [ ... m, applied left to right
RECURSIVE vt_sgr(_, _)
vt_sgr(st, ps) ==
    IF ps = <<>>
    THEN st
    ELSE LET p == Head(ps)
             extended == p \in {38, 48} /\ Len(ps) >= 3 /\ ps[2] = 5
             truecolor == p \in {38, 48} /\ Len(ps) >= 5 /\ ps[2] = 2
             colour == IF extended THEN Idx(ps[3] % 256)
                       ELSE Rgb(ps[3] % 256, ps[4] % 256, ps[5] % 256)
         IN  IF p = 0 THEN vt_sgr([st EXCEPT !.fg = Default, !.bg = Default], Tail(ps))
             ELSE IF p >= 30 /\ p <= 37 THEN vt_sgr([st EXCEPT !.fg = Idx(p - 30)], Tail(ps))
             ELSE IF p >= 40 /\ p <= 47 THEN vt_sgr([st EXCEPT !.bg = Idx(p - 40)], Tail(ps))
             ELSE IF p = 39 THEN vt_sgr([st EXCEPT !.fg = Default], Tail(ps))
             ELSE IF p = 49 THEN vt_sgr([st EXCEPT !.bg = Default], Tail(ps))
             ELSE IF extended \/ truecolor
                  THEN vt_sgr(IF p = 38 THEN [st EXCEPT !.fg = colour]
                                        ELSE [st EXCEPT !.bg = colour],
                              SubSeq(ps, IF extended THEN 4 ELSE 6, Len(ps)))
             ELSE vt_sgr(st, Tail(ps))

\* the final byte of a control sequence: m selects colours, H places the
\* cursor (1-based, clamped to the grid); every other sequence is ignored
vt_csi(st, rows, cols, final) ==
    LET ps == Append(st.params, st.cur)
        clamp(v, n) == IF n = 0 THEN 0 ELSE IF v = 0 THEN 0 ELSE IF v > n THEN n - 1 ELSE v - 1
        ended == [st EXCEPT !.mode = "ground", !.params = <<>>, !.cur = 0]
    IN  IF final = 109 THEN vt_sgr(ended, ps)
        ELSE IF final = 72
             THEN [ended EXCEPT !.row = clamp(ps[1], rows),
                                !.col = clamp(IF Len(ps) >= 2 THEN ps[2] ELSE 0, cols)]
        ELSE ended

\* one byte of the stream
vt_step(st, rows, cols, byte) ==
    IF byte = ESC THEN [st EXCEPT !.mode = "escape", !.params = <<>>, !.cur = 0]
    ELSE IF st.mode = "escape"
         THEN IF byte = 91 THEN [st EXCEPT !.mode = "csi"] ELSE [st EXCEPT !.mode = "ground"]
    ELSE IF st.mode = "csi"
         THEN IF byte >= 48 /\ byte <= 57
              THEN [st EXCEPT !.cur = IF st.cur * 10 + (byte - 48) > 65535 THEN 65535
                                      ELSE st.cur * 10 + (byte - 48)]
              ELSE IF byte = 59
                   THEN [st EXCEPT !.params = Append(st.params, st.cur), !.cur = 0]
              ELSE IF byte >= 64 /\ byte <= 126 THEN vt_csi(st, rows, cols, byte)
              ELSE st
    ELSE IF byte = 13 THEN [st EXCEPT !.col = 0]
    ELSE IF byte = 10 THEN vt_next_row(st, rows)
    ELSE IF byte >= 32 /\ byte <= 126 THEN vt_print(st, rows, cols, byte)
    ELSE st

\* the bytes are taken in order, each in the mode the one before left
RECURSIVE vt_run(_, _, _, _)
vt_run(st, rows, cols, bytes) ==
    IF bytes = <<>> \/ st.mode \notin VtModes
    THEN st
    ELSE vt_run(vt_step(st, rows, cols, Head(bytes)), rows, cols, Tail(bytes))

\* parser.screen(): the grid and cursor the Parser holds
Parser_screen(parser) ==
    LET st == vt_run(vt_new, parser.rows, parser.cols, parser.fed)
    IN  [rows |-> parser.rows, cols |-> parser.cols, cells |-> st.cells,
         cursor |-> <<st.row, st.col>>]

\* screen.cell(y, x); inside the grid there always is a cell
Screen_cell(screen, y, x) ==
    IF <<y, x>> \in DOMAIN screen.cells THEN screen.cells[<<y, x>>] ELSE BlankCell

(***************************************************************************)
(* The renderer (renderer.rs).  The vt100 Parser is kept as its            *)
(* dimensions and the bytes it was fed since it was created.               *)
(***************************************************************************)
saturating_sub(a, b) == IF a >= b THEN a - b ELSE 0

Parser_new(rows, cols) == [rows |-> rows, cols |-> cols, fed |-> <<>>]

TerminalRenderer_new(width, height) ==
    [parser |-> Parser_new(saturating_sub(height, 2), width),
     width |-> width,
     height |-> height,
     title |-> <<"Shell Terminal">>,
     show_status_bar |-> TRUE,
     raw_mode |-> FALSE]

set_title(r, title) == [r EXCEPT !.title = title]

toggle_status_bar_in_place(r) ==
    [r EXCEPT !.show_status_bar = ~r.show_status_bar,
              !.parser.rows = saturating_sub(r.height, IF ~r.show_status_bar THEN 2 ELSE 1)]

toggle_status_bar_keeps_grid(r) == [r EXCEPT !.show_status_bar = ~r.show_status_bar]

toggle_status_bar(r) ==
    LET shown == ~r.show_status_bar
        reserved_rows == IF shown THEN 2 ELSE 1
    IN  [r EXCEPT !.show_status_bar = shown,
                  !.parser = Parser_new(saturating_sub(r.height, reserved_rows), r.width)]

toggle_raw_mode(r) == [r EXCEPT !.raw_mode = ~r.raw_mode]

process_output_restarts(r, data) == [r EXCEPT !.parser.fed = data]

process_output_raw_only_echoes(r, data) ==
    IF r.raw_mode THEN r ELSE [r EXCEPT !.parser.fed = r.parser.fed \o data]

\* the renderer after process_output; what it prints on stderr is raw_echo
process_output(r, data) == [r EXCEPT !.parser.fed = r.parser.fed \o data]

\* debug_str: a control byte shows as "^" and the char byte + 64, the sum
\* computed in u8; any other byte as the char of its value
RECURSIVE debug_str(_)
debug_str(data) ==
    IF data = <<>> THEN <<>>
    ELSE (IF Head(data) \in 0 .. 31 \cup {127}
          THEN <<94, (Head(data) + 64) % 256>>
          ELSE <<Head(data)>>) \o debug_str(Tail(data))

\* the lines process_output adds to stderr: one when raw_mode is set
raw_echo(r, data) == IF r.raw_mode THEN <<debug_str(data)>> ELSE <<>>

resize_rebuilds_renderer(r, width, height) == TerminalRenderer_new(width, height)

resize_two_reserved(r, width, height) ==
    [r EXCEPT !.width = width,
              !.height = height,
              !.parser = Parser_new(saturating_sub(height, 2), width)]

resize_keeps_content(r, width, height) ==
    LET reserved_rows == IF r.show_status_bar THEN 2 ELSE 1
        rows == saturating_sub(height, reserved_rows)
    IN  [r EXCEPT !.width = width,
                  !.height = height,
                  !.parser = IF rows = r.parser.rows /\ width = r.parser.cols
                             THEN r.parser
                             ELSE Parser_new(rows, width)]

resize(r, width, height) ==
    LET reserved_rows == IF r.show_status_bar THEN 2 ELSE 1
    IN  [r EXCEPT !.width = width,
                  !.height = height,
                  !.parser = Parser_new(saturating_sub(height, reserved_rows), width)]

(***************************************************************************)
(* render(): the commands one repaint queues on stdout, in order.  A       *)
(* command is a record; printing a cell carries the cell's character in    *)
(* ch, printing the dimensions carries them in x and y.                    *)
(***************************************************************************)
Color(name) == [name |-> name, r |-> 0, g |-> 0, b |-> 0]

Color_Rgb(r, g, b) == [name |-> "Rgb", r |-> r, g |-> g, b |-> b]

\* the sixteen named colours of map_vt100_color, Idx(0) first
NamedColors == <<"Black", "DarkRed", "DarkGreen", "DarkYellow", "DarkBlue", "DarkMagenta",
                 "DarkCyan", "Grey", "DarkGrey", "Red", "Green", "Yellow", "Blue",
                 "Magenta", "Cyan", "White">>

map_vt100_color_grey_step(color) ==
    IF color.kind = "Default" THEN Color("Reset")
    ELSE IF color.kind = "Rgb" THEN Color_Rgb(color.a, color.b, color.c)
    ELSE LET n == color.a
         IN  IF n <= 15 THEN Color(NamedColors[n + 1])
             ELSE IF n < 232
                  THEN LET r == ((n - 16) % 256) \div 36
                           g == (((n - 16) % 256) % 36) \div 6
                           b == ((n - 16) % 256) % 6
                       IN  Color_Rgb((r * 42 + 36) % 256, (g * 42 + 36) % 256,
                                     (b * 42 + 36) % 256)
                  ELSE LET gray == (((n - 232) % 256) * 11 + 8) % 256
                       IN  Color_Rgb(gray, gray, gray)

\* n is a u8 and so is every intermediate value: the arithmetic wraps at 256
map_vt100_color(color) ==
    IF color.kind = "Default" THEN Color("Reset")
    ELSE IF color.kind = "Rgb" THEN Color_Rgb(color.a, color.b, color.c)
    ELSE LET n == color.a
         IN  IF n <= 15 THEN Color(NamedColors[n + 1])
             ELSE IF n < 232
                  THEN LET r == ((n - 16) % 256) \div 36
                           g == (((n - 16) % 256) % 36) \div 6
                           b == ((n - 16) % 256) % 6
                       IN  Color_Rgb((r * 42 + 36) % 256, (g * 42 + 36) % 256,
                                     (b * 42 + 36) % 256)
                  ELSE LET gray == (((n - 232) % 256) * 10 + 8) % 256
                       IN  Color_Rgb(gray, gray, gray)

Cmd(op, color, x, y, text, ch) ==
    [op |-> op, color |-> color, x |-> x, y |-> y, text |-> text, ch |-> ch]

Clear == Cmd("Clear", Color("Reset"), 0, 0, <<>>, 0)

MoveTo(x, y) == Cmd("MoveTo", Color("Reset"), x, y, <<>>, 0)

SetForegroundColor(color) == Cmd("SetForegroundColor", color, 0, 0, <<>>, 0)

SetBackgroundColor(color) == Cmd("SetBackgroundColor", color, 0, 0, <<>>, 0)

ResetColor == Cmd("ResetColor", Color("Reset"), 0, 0, <<>>, 0)

Put(text) == Cmd("Print", Color("Reset"), 0, 0, text, 0)

PutCell(ch) == Cmd("Print", Color("Reset"), 0, 0, <<"cell">>, ch)

Spaces(n) == [i \in 1 .. n |-> Put(<<" ">>)]

\* the length of a title kept as pieces of text
RECURSIVE str_len(_)
str_len(pieces) ==
    IF pieces = <<>> THEN 0
    ELSE (CASE Head(pieces) = "Shell Terminal" -> 14
            [] Head(pieces) = "Terminal - " -> 11
            [] OTHER -> 1) + str_len(Tail(pieces))

\* the number of decimal digits of a u16
digits(n) == IF n < 10 THEN 1 ELSE IF n < 100 THEN 2 ELSE IF n < 1000 THEN 3
             ELSE IF n < 10000 THEN 4 ELSE 5

render_title_bar(r) ==
    LET centered_title == <<" ">> \o r.title \o <<" ">>
        position == saturating_sub(r.width, str_len(centered_title)) \div 2
    IN  <<MoveTo(0, 0), SetBackgroundColor(Color("DarkBlue")),
          SetForegroundColor(Color("White"))>>
        \o Spaces(r.width)
        \o <<MoveTo(0, 0)>>
        \o Spaces(position)
        \o <<Put(centered_title), ResetColor>>

\* self.height - 1 is computed in u16; the row below is the wrapped one
render_status_bar(r) ==
    IF ~r.show_status_bar
    THEN <<>>
    ELSE LET row == (r.height - 1) % 65536
             pos == saturating_sub(r.width, digits(r.width) + digits(r.height) + 2)
         IN  <<MoveTo(0, row), SetBackgroundColor(Color("DarkGrey")),
               SetForegroundColor(Color("White"))>>
             \o Spaces(r.width)
             \o <<MoveTo(0, row),
                  Put(<<" Ctrl+Q: Quit | Ctrl+B: Toggle Status Bar | ", "%H:%M:%S">>),
                  MoveTo(pos, row),
                  Cmd("Print", Color("Reset"), r.width, r.height, <<"{}x{} ">>, 0),
                  ResetColor>>

content_height(r) ==
    IF r.show_status_bar THEN saturating_sub(r.height, 2) ELSE saturating_sub(r.height, 1)

\* one cell: st carries the commands so far and current_fg, current_bg
\* (<<>> is None, <<c>> is Some(c))
paint_cell_untracked(screen, y, x, st) ==
    LET cell == Screen_cell(screen, y, x)
        cell_fg == map_vt100_color(cell.fg)
        cell_bg == map_vt100_color(cell.bg)
    IN  [out |-> st.out \o <<SetForegroundColor(cell_fg), SetBackgroundColor(cell_bg),
                              PutCell(IF cell.ch = 0 THEN 32 ELSE cell.ch)>>,
         current_fg |-> <<cell_fg>>,
         current_bg |-> <<cell_bg>>]

paint_cell(screen, y, x, st) ==
    LET cell == Screen_cell(screen, y, x)
        cell_fg == map_vt100_color(cell.fg)
        cell_bg == map_vt100_color(cell.bg)
        fg_cmd == IF st.current_fg # <<cell_fg>> THEN <<SetForegroundColor(cell_fg)>> ELSE <<>>
        bg_cmd == IF st.current_bg # <<cell_bg>> THEN <<SetBackgroundColor(cell_bg)>> ELSE <<>>
    IN  [out |-> st.out \o fg_cmd \o bg_cmd
                        \o <<PutCell(IF cell.ch = 0 THEN 32 ELSE cell.ch)>>,
         current_fg |-> <<cell_fg>>,
         current_bg |-> <<cell_bg>>]

\* for x in 0..self.width { if x >= screen.size().1 { break; } ... }
RECURSIVE paint_cells(_, _, _, _, _)
paint_cells(screen, y, x, width, st) ==
    IF x >= width \/ x >= screen.cols
    THEN st
    ELSE paint_cells(screen, y, x + 1, width, paint_cell(screen, y, x, st))

\* for y in 0..content_height { if y >= screen.size().0 { break; } ... }
RECURSIVE paint_rows(_, _, _, _, _)
paint_rows(screen, y, height, width, st) ==
    IF y >= height \/ y >= screen.rows
    THEN st
    ELSE paint_rows(screen, y + 1, height, width,
                    paint_cells(screen, y, 0, width,
                                [st EXCEPT !.out = Append(st.out, MoveTo(0, y + 1))]))

render_cursor_unshifted(r) ==
    LET screen == Parser_screen(r.parser)
        content == paint_rows(screen, 0, content_height(r), r.width,
                              [out |-> <<>>, current_fg |-> <<>>, current_bg |-> <<>>])
    IN  <<Clear>>
        \o render_title_bar(r)
        \o content.out
        \o <<ResetColor>>
        \o render_status_bar(r)
        \o <<MoveTo(screen.cursor[2], screen.cursor[1])>>

render(r) ==
    LET screen == Parser_screen(r.parser)
        content == paint_rows(screen, 0, content_height(r), r.width,
                              [out |-> <<>>, current_fg |-> <<>>, current_bg |-> <<>>])
    IN  <<Clear>>
        \o render_title_bar(r)
        \o content.out
        \o <<ResetColor>>
        \o render_status_bar(r)
        \o <<MoveTo(screen.cursor[2], screen.cursor[1] + 1)>>

\* render_status_bar computes self.height - 1 in u16: with the status bar
\* shown and height 0 the subtraction underflows (a panic in a build with
\* overflow checks, a wrapped row without them)
StatusRowUnderflows(r) == r.show_status_bar /\ r.height = 0

(***************************************************************************)
(* Terminal::update_title: the home directory prefix becomes "~".          *)
(***************************************************************************)
starts_with(s, prefix) ==
    Len(prefix) <= Len(s) /\ SubSeq(s, 1, Len(prefix)) = prefix

update_title(current_dir, home) ==
    IF home # NoHome /\ starts_with(current_dir, home)
    THEN <<"Terminal - ", "~">> \o SubSeq(current_dir, Len(home) + 1, Len(current_dir))
    ELSE <<"Terminal - ">> \o current_dir

(***************************************************************************)
(* The initial state: the process has started, main has not run yet.       *)
(***************************************************************************)
Init ==
    /\ pc = "start"
    /\ result = "none"
    /\ exitStatus = -1
    /\ diagnostic = FALSE
    /\ rawMode = FALSE
    /\ altScreen = FALSE
    /\ disableRawCalls = 0
    /\ leaveAltCalls = 0
    /\ term = [width |-> 0, height |-> 0, running |-> FALSE, current_dir |-> <<>>]
    /\ COUNTER = 0
    /\ event = NotPolled
    /\ input_bytes = NotTranslated
    /\ ptyWritten = <<>>
    /\ ptySize = [rows |-> 0, cols |-> 0]
    /\ renderer = TerminalRenderer_new(0, 0)
    /\ rendererLock = "free"
    /\ ptyReaderLock = 0
    /\ readers = <<>>
    /\ childOut = [i \in 1 .. MaxFed |-> 72]
    /\ consumed = 0
    /\ frame = <<>>
    /\ itersAfterEof = 0
    /\ line = <<>>
    /\ command = NotParsed
    /\ stdin = <<>>
    /\ shellOut = <<>>
    /\ stderr = <<>>
    /\ twin = renderer

\* the ways size() and Terminal::new fail, in the order of their `?`
NewErrors == {"size", "current_exe", "pty_alloc", "spawn", "clone_reader",
              "take_writer", "current_dir"}

mainVars == <<pc, result, exitStatus, diagnostic, rawMode, altScreen, disableRawCalls,
              leaveAltCalls, term, COUNTER, event, input_bytes, ptyWritten, ptySize>>

readerVars == <<ptyReaderLock, readers, childOut, consumed>>

\* the thread of thread::spawn, about to enter its loop
NewReader == [pc |-> "read", end |-> "none", buffer |-> <<>>]

termIO == <<rawMode, altScreen, disableRawCalls, leaveAltCalls>>

(***************************************************************************)
(* Starting: run_terminal_emulator, Terminal::new and the head of run.     *)
(***************************************************************************)
TerminalNewSizedPty(width, height) ==
    /\ pc = "start"
    /\ ptySize' = [rows |-> height, cols |-> width]
    /\ renderer' = TerminalRenderer_new(width, height)
    /\ term' = [width |-> width, height |-> height, running |-> FALSE,
                current_dir |-> StartDir]
    /\ pc' = "enable_raw"
    /\ UNCHANGED <<result, exitStatus, diagnostic, termIO, COUNTER, event, input_bytes,
                   ptyWritten, rendererLock, readerVars, itersAfterEof, frame, shellVars, echoVars>>

\* size()? and Terminal::new(width, height)? succeed: the PTY is opened at
\* 24 x 80 and the child spawned
TerminalNew(width, height) ==
    /\ pc = "start"
    /\ ptySize' = [rows |-> 24, cols |-> 80]
    /\ renderer' = TerminalRenderer_new(width, height)
    /\ term' = [width |-> width, height |-> height, running |-> FALSE,
                current_dir |-> StartDir]
    /\ pc' = "enable_raw"
    /\ UNCHANGED <<result, exitStatus, diagnostic, termIO, COUNTER, event, input_bytes,
                   ptyWritten, rendererLock, readerVars, itersAfterEof, frame, shellVars, echoVars>>

\* size() or a step of Terminal::new returns Err
TerminalNewFails(e) ==
    /\ pc = "start"
    /\ result' = e
    /\ pc' = "report"
    /\ UNCHANGED <<exitStatus, diagnostic, termIO, term, COUNTER, event, input_bytes,
                   ptyWritten, ptySize, renderer, rendererLock, readerVars, itersAfterEof, frame, shellVars, echoVars>>

\* enable_raw_mode()?
EnableRawMode ==
    /\ pc = "enable_raw"
    /\ \/ /\ rawMode' = TRUE
          /\ pc' = "enter_alt"
          /\ UNCHANGED result
       \/ /\ result' = "raw_mode"
          /\ pc' = "report"
          /\ UNCHANGED rawMode
    /\ UNCHANGED <<exitStatus, diagnostic, altScreen, disableRawCalls, leaveAltCalls,
                   term, COUNTER, event, input_bytes, ptyWritten, ptySize, renderer,
                   rendererLock, readerVars, itersAfterEof, frame, shellVars, echoVars>>

\* execute!(stdout(), EnterAlternateScreen)?
EnterAlternateScreen ==
    /\ pc = "enter_alt"
    /\ \/ /\ altScreen' = TRUE
          /\ pc' = "setup"
          /\ UNCHANGED result
       \/ /\ result' = "alt_screen"
          /\ pc' = "report"
          /\ UNCHANGED altScreen
    /\ UNCHANGED <<exitStatus, diagnostic, rawMode, disableRawCalls, leaveAltCalls,
                   term, COUNTER, event, input_bytes, ptyWritten, ptySize, renderer,
                   rendererLock, readerVars, itersAfterEof, frame, shellVars, echoVars>>

\* self.update_title()?; self.setup_pty_reader()?; self.running = true
Setup(home) ==
    /\ pc = "setup"
    /\ rendererLock = "free"
    /\ renderer' = set_title(renderer, update_title(term.current_dir, home))
    /\ readers' = Append(readers, NewReader)
    /\ term' = [term EXCEPT !.running = TRUE]
    /\ pc' = "loop"
    /\ UNCHANGED <<result, exitStatus, diagnostic, termIO, COUNTER, event, input_bytes,
                   ptyWritten, ptySize, rendererLock, ptyReaderLock, childOut, consumed,
                   itersAfterEof, frame, shellVars, echoVars>>

(***************************************************************************)
(* Running: the event loop of Terminal::run.                               *)
(***************************************************************************)
ReaderSawEof == \E i \in DOMAIN readers : readers[i].pc = "done" /\ readers[i].end = "eof"

LoopCheckIgnoresRunning ==
    /\ pc = "loop"
    /\ pc' = "poll"
    /\ event' = NotPolled
    /\ input_bytes' = NotTranslated
    /\ itersAfterEof' = IF ReaderSawEof /\ itersAfterEof < 2
                        THEN itersAfterEof + 1
                        ELSE itersAfterEof
    /\ UNCHANGED <<result, exitStatus, diagnostic, termIO, term, COUNTER, ptyWritten,
                   ptySize, renderer, rendererLock, readerVars, frame, shellVars, echoVars>>

\* while self.running: a new iteration has no event and no input_bytes yet
LoopCheck ==
    /\ pc = "loop"
    /\ pc' = IF term.running THEN "poll" ELSE "disable_raw"
    /\ event' = IF term.running THEN NotPolled ELSE event
    /\ input_bytes' = IF term.running THEN NotTranslated ELSE input_bytes
    /\ itersAfterEof' = IF term.running /\ ReaderSawEof /\ itersAfterEof < 2
                        THEN itersAfterEof + 1
                        ELSE itersAfterEof
    /\ UNCHANGED <<result, exitStatus, diagnostic, termIO, term, COUNTER, ptyWritten,
                   ptySize, renderer, rendererLock, readerVars, frame, shellVars, echoVars>>

\* self.input_handler.poll_event(100)? returns Err
PollFails ==
    /\ pc = "poll"
    /\ event' = PollError
    /\ input_bytes' = NotTranslated
    /\ result' = "poll"
    /\ pc' = "report"
    /\ UNCHANGED <<exitStatus, diagnostic, termIO, term, COUNTER, ptyWritten, ptySize,
                   renderer, rendererLock, readerVars, itersAfterEof, frame, shellVars, echoVars>>

is_quit(key) == key.kind = "Char" /\ key.arg = 113 /\ key.mods = {"CONTROL"}

is_toggle_status_bar(key) == key.kind = "Char" /\ key.arg = 98 /\ key.mods = {"CONTROL"}

is_toggle_raw_mode_upper(key) ==
    key.kind = "Char" /\ key.arg = 82 /\ key.mods = {"CONTROL"}

is_toggle_raw_mode(key) == key.kind = "Char" /\ key.arg = 114 /\ key.mods = {"CONTROL"}

\* Ctrl+Q without its `continue`: the key falls through to the translator
QuitFallsThrough(key) ==
    /\ pc = "poll"
    /\ key.kind = "Char" /\ key.arg = 113 /\ key.mods = {"CONTROL"}
    /\ event' = KeyEvent(key)
    /\ input_bytes' = process_key_input(key)
    /\ term' = [term EXCEPT !.running = FALSE]
    /\ ptyWritten' = ptyWritten \o input_bytes'
    /\ pc' = "render"
    /\ UNCHANGED <<result, exitStatus, diagnostic, termIO, COUNTER, ptySize,
                   renderer, rendererLock, readerVars, itersAfterEof, frame, shellVars, echoVars>>

\* Ctrl+Q: self.running = false; continue
Quit(key) ==
    /\ pc = "poll"
    /\ is_quit(key)
    /\ event' = KeyEvent(key)
    /\ input_bytes' = NotTranslated
    /\ term' = [term EXCEPT !.running = FALSE]
    /\ pc' = "loop"
    /\ UNCHANGED <<result, exitStatus, diagnostic, termIO, COUNTER, ptyWritten, ptySize,
                   renderer, rendererLock, readerVars, itersAfterEof, frame, shellVars, echoVars>>

\* Ctrl+B: self.renderer.lock().unwrap().toggle_status_bar(); continue
ToggleStatusBar(key) ==
    /\ pc = "poll"
    /\ ~is_quit(key) /\ is_toggle_status_bar(key)
    /\ rendererLock = "free"
    /\ event' = KeyEvent(key)
    /\ input_bytes' = NotTranslated
    /\ renderer' = toggle_status_bar(renderer)
    /\ pc' = "loop"
    /\ UNCHANGED <<result, exitStatus, diagnostic, termIO, term, COUNTER, ptyWritten,
                   ptySize, rendererLock, readerVars, itersAfterEof, frame, shellVars, echoVars>>

\* Ctrl+R: self.renderer.lock().unwrap().toggle_raw_mode(); continue
ToggleRawMode(key) ==
    /\ pc = "poll"
    /\ ~is_quit(key) /\ ~is_toggle_status_bar(key) /\ is_toggle_raw_mode(key)
    /\ rendererLock = "free"
    /\ event' = KeyEvent(key)
    /\ input_bytes' = NotTranslated
    /\ renderer' = toggle_raw_mode(renderer)
    /\ pc' = "loop"
    /\ UNCHANGED <<result, exitStatus, diagnostic, termIO, term, COUNTER, ptyWritten,
                   ptySize, rendererLock, readerVars, itersAfterEof, frame, shellVars, echoVars>>

IsShortcut(key) == is_quit(key) \/ is_toggle_status_bar(key) \/ is_toggle_raw_mode(key)

ForwardKeyShortWrite(key, room) ==
    /\ pc = "poll"
    /\ ~IsShortcut(key)
    /\ event' = KeyEvent(key)
    /\ LET bytes == process_key_input(key)
       IN  /\ input_bytes' = bytes
           /\ Len(ptyWritten) + Len(bytes) <= room
           /\ IF bytes # <<>>
              THEN \/ /\ ptyWritten' = ptyWritten \o SubSeq(bytes, 1, 1)
                      /\ pc' = "render"
                      /\ UNCHANGED result
                   \/ /\ \E n \in 0 .. (Len(bytes) - 1) :
                            ptyWritten' = ptyWritten \o SubSeq(bytes, 1, n)
                      /\ result' = "write"
                      /\ pc' = "report"
              ELSE /\ pc' = "render"
                   /\ UNCHANGED <<ptyWritten, result>>
    /\ UNCHANGED <<exitStatus, diagnostic, termIO, term, COUNTER, ptySize, renderer,
                   rendererLock, readerVars, itersAfterEof, frame, shellVars, echoVars>>

\* any other key: process_key_input, then self.pty.write(&input_bytes)? when
\* the bytes are not empty.  A failed write_all may have written a prefix.
\* The model follows the session while the PTY has taken at most room bytes.
ForwardKeyWithin(key, room) ==
    /\ pc = "poll"
    /\ ~IsShortcut(key)
    /\ event' = KeyEvent(key)
    /\ LET bytes == process_key_input(key)
       IN  /\ input_bytes' = bytes
           /\ Len(ptyWritten) + Len(bytes) <= room
           /\ IF bytes # <<>>
              THEN \/ /\ ptyWritten' = ptyWritten \o bytes
                      /\ pc' = "render"
                      /\ UNCHANGED result
                   \/ /\ \E n \in 0 .. (Len(bytes) - 1) :
                            ptyWritten' = ptyWritten \o SubSeq(bytes, 1, n)
                      /\ result' = "write"
                      /\ pc' = "report"
              ELSE /\ pc' = "render"
                   /\ UNCHANGED <<ptyWritten, result>>
    /\ UNCHANGED <<exitStatus, diagnostic, termIO, term, COUNTER, ptySize, renderer,
                   rendererLock, readerVars, itersAfterEof, frame, shellVars, echoVars>>

ForwardKey(key) == ForwardKeyWithin(key, MaxWritten)

ResizeRendererFirst(width, height) ==
    /\ pc = "poll"
    /\ rendererLock = "free"
    /\ event' = ResizeEvent(width, height)
    /\ input_bytes' = NotTranslated
    /\ term' = [term EXCEPT !.width = width, !.height = height]
    /\ renderer' = resize(renderer, width, height)
    /\ \/ /\ ptySize' = [rows |-> height, cols |-> width]
          /\ pc' = "render"
          /\ UNCHANGED result
       \/ /\ result' = "resize"
          /\ pc' = "report"
          /\ UNCHANGED ptySize
    /\ UNCHANGED <<exitStatus, diagnostic, termIO, COUNTER, ptyWritten,
                   rendererLock, readerVars, itersAfterEof, frame, shellVars, echoVars>>

\* InputEvent::Resize: self.width, self.height, then self.pty.resize(height, width)?
Resize(width, height) ==
    /\ pc = "poll"
    /\ event' = ResizeEvent(width, height)
    /\ input_bytes' = NotTranslated
    /\ term' = [term EXCEPT !.width = width, !.height = height]
    /\ \/ /\ ptySize' = [rows |-> height, cols |-> width]
          /\ pc' = "resize_renderer"
          /\ UNCHANGED result
       \/ /\ result' = "resize"
          /\ pc' = "report"
          /\ UNCHANGED ptySize
    /\ UNCHANGED <<exitStatus, diagnostic, termIO, COUNTER, ptyWritten, renderer,
                   rendererLock, readerVars, itersAfterEof, frame, shellVars, echoVars>>

ResizeRendererTryLock ==
    /\ pc = "resize_renderer"
    /\ IF rendererLock = "free"
       THEN /\ renderer' = resize(renderer, event.width, event.height)
            /\ pc' = "render"
            /\ UNCHANGED result
       ELSE /\ result' = "lock"
            /\ pc' = "report"
            /\ UNCHANGED renderer
    /\ UNCHANGED <<exitStatus, diagnostic, termIO, term, COUNTER, event,
                   input_bytes, ptyWritten, ptySize, rendererLock, readerVars,
                   itersAfterEof, frame, shellVars, echoVars>>

\* self.renderer.lock().unwrap().resize(width, height)
ResizeRenderer ==
    /\ pc = "resize_renderer"
    /\ rendererLock = "free"
    /\ renderer' = resize(renderer, event.width, event.height)
    /\ pc' = "render"
    /\ UNCHANGED <<result, exitStatus, diagnostic, termIO, term, COUNTER, event,
                   input_bytes, ptyWritten, ptySize, rendererLock, readerVars,
                   itersAfterEof, frame, shellVars, echoVars>>

CwdError == <<"error">>

\* InputEvent::None: sleep, COUNTER += 1 and, every TitleCadence-th time,
\* the working directory is read again and the title updated if it changed
Timeout(cwd, home) ==
    /\ pc = "poll"
    /\ COUNTER < MaxTicks
    /\ event' = NoneEvent
    /\ input_bytes' = NotTranslated
    /\ COUNTER' = COUNTER + 1
    /\ IF COUNTER' % TitleCadence = 0 /\ cwd # CwdError /\ cwd # term.current_dir
       THEN /\ rendererLock = "free"
            /\ term' = [term EXCEPT !.current_dir = cwd]
            /\ renderer' = set_title(renderer, update_title(cwd, home))
       ELSE UNCHANGED <<term, renderer>>
    /\ pc' = "render"
    /\ UNCHANGED <<result, exitStatus, diagnostic, termIO, ptyWritten, ptySize,
                   rendererLock, readerVars, itersAfterEof, frame, shellVars, echoVars>>

\* self.renderer.lock().unwrap(): the main thread takes the renderer's mutex
RenderLock ==
    /\ pc = "render"
    /\ rendererLock = "free"
    /\ rendererLock' = "main"
    /\ pc' = "rendering"
    /\ UNCHANGED <<result, exitStatus, diagnostic, termIO, term, COUNTER, event,
                   input_bytes, ptyWritten, ptySize, renderer, readerVars, itersAfterEof, frame, shellVars, echoVars>>

\* render() returns Ok: the frame is painted, the guard dropped
RenderOk ==
    /\ pc = "rendering"
    /\ rendererLock' = "free"
    /\ pc' = "loop"
    /\ UNCHANGED <<result, exitStatus, diagnostic, termIO, term, COUNTER, event,
                   input_bytes, ptyWritten, ptySize, renderer, readerVars, itersAfterEof, frame, shellVars, echoVars>>

\* render()? returns Err: run returns it at once
RenderFails ==
    /\ pc = "rendering"
    /\ rendererLock' = "free"
    /\ result' = "render"
    /\ pc' = "report"
    /\ UNCHANGED <<exitStatus, diagnostic, termIO, term, COUNTER, event, input_bytes,
                   ptyWritten, ptySize, renderer, readerVars, itersAfterEof, frame, shellVars, echoVars>>

\* self.height - 1 underflows with overflow checks on: the main thread
\* panics, the process ends with status 101 and the mutex stays poisoned
RenderPanics ==
    /\ pc = "rendering"
    /\ StatusRowUnderflows(renderer)
    /\ rendererLock' = "poisoned"
    /\ result' = "panic"
    /\ exitStatus' = 101
    /\ pc' = "exited"
    /\ UNCHANGED <<diagnostic, termIO, term, COUNTER, event, input_bytes, ptyWritten,
                   ptySize, renderer, readerVars, itersAfterEof, frame, shellVars, echoVars>>

(***************************************************************************)
(* ShuttingDown: the tail of Terminal::run, then main.                     *)
(***************************************************************************)
\* disable_raw_mode()?
DisableRawMode ==
    /\ pc = "disable_raw"
    /\ disableRawCalls' = disableRawCalls + 1
    /\ \/ /\ rawMode' = FALSE
          /\ pc' = "leave_alt"
          /\ UNCHANGED result
       \/ /\ result' = "disable_raw"
          /\ pc' = "report"
          /\ UNCHANGED rawMode
    /\ UNCHANGED <<exitStatus, diagnostic, altScreen, leaveAltCalls, term, COUNTER,
                   event, input_bytes, ptyWritten, ptySize, renderer, rendererLock,
                   readerVars, itersAfterEof, frame, shellVars, echoVars>>

\* execute!(stdout(), LeaveAlternateScreen)?; Ok(())
LeaveAlternateScreen ==
    /\ pc = "leave_alt"
    /\ leaveAltCalls' = leaveAltCalls + 1
    /\ \/ /\ altScreen' = FALSE
          /\ result' = "ok"
       \/ /\ result' = "leave_alt"
          /\ UNCHANGED altScreen
    /\ pc' = "report"
    /\ UNCHANGED <<exitStatus, diagnostic, rawMode, disableRawCalls, term, COUNTER,
                   event, input_bytes, ptyWritten, ptySize, renderer, rendererLock,
                   readerVars, itersAfterEof, frame, shellVars, echoVars>>

\* main: match run_terminal_emulator() { Ok(_) => (), Err(e) => eprintln!(..) },
\* then main returns and the process ends with status 0
Report ==
    /\ pc = "report"
    /\ diagnostic' = (result # "ok")
    /\ exitStatus' = 0
    /\ pc' = "exited"
    /\ UNCHANGED <<result, termIO, term, COUNTER, event, input_bytes, ptyWritten,
                   ptySize, renderer, rendererLock, readerVars, itersAfterEof, frame, shellVars, echoVars>>

(***************************************************************************)
(* The reader thread of TerminalPty::spawn_reader with the callback of     *)
(* Terminal::setup_pty_reader.  It dies with the process.                  *)
(***************************************************************************)
ProcessAlive == pc # "exited"

\* let mut reader = reader.lock().unwrap(): the thread takes the PTY
\* reader's mutex and enters reader.read(&mut buffer)
ReaderTakesReader(i) ==
    /\ ProcessAlive
    /\ readers[i].pc = "read"
    /\ ptyReaderLock = 0
    /\ ptyReaderLock' = i
    /\ readers' = [readers EXCEPT ![i].pc = "reading"]
    /\ UNCHANGED <<mainVars, renderer, rendererLock, childOut, consumed, itersAfterEof,
                   frame, shellVars, echoVars>>

ReaderReadShort(i, n) ==
    /\ ProcessAlive
    /\ readers[i].pc = "reading"
    /\ n >= 1
    /\ n <= BufferSize
    /\ consumed + n <= Len(childOut)
    /\ readers' = [readers EXCEPT ![i].buffer = SubSeq(childOut, consumed + 1, consumed + n - 1),
                                  ![i].pc = "callback"]
    /\ consumed' = consumed + n
    /\ ptyReaderLock' = 0
    /\ UNCHANGED <<mainVars, renderer, rendererLock, childOut, itersAfterEof, frame, shellVars, echoVars>>

ReaderReadKeepsLock(i, n) ==
    /\ ProcessAlive
    /\ readers[i].pc = "reading"
    /\ n >= 1
    /\ n <= BufferSize
    /\ consumed + n <= Len(childOut)
    /\ readers' = [readers EXCEPT ![i].buffer = SubSeq(childOut, consumed + 1, consumed + n),
                                  ![i].pc = "callback"]
    /\ consumed' = consumed + n
    /\ UNCHANGED <<mainVars, renderer, rendererLock, ptyReaderLock, childOut, itersAfterEof,
                   frame, shellVars, echoVars>>

\* reader.read(&mut buffer) returns Ok(n), n > 0: the next n bytes of the
\* child's output; the block ends and the reader's mutex is released
ReaderRead(i, n) ==
    /\ ProcessAlive
    /\ readers[i].pc = "reading"
    /\ n >= 1
    /\ n <= BufferSize
    /\ consumed + n <= Len(childOut)
    /\ readers' = [readers EXCEPT ![i].buffer = SubSeq(childOut, consumed + 1, consumed + n),
                                  ![i].pc = "callback"]
    /\ consumed' = consumed + n
    /\ ptyReaderLock' = 0
    /\ UNCHANGED <<mainVars, renderer, rendererLock, childOut, itersAfterEof, frame, shellVars, echoVars>>

\* Ok(0) => break (EOF), Err(_) => break: the mutex is released on the way out
ReaderEnds(i, why) ==
    /\ ProcessAlive
    /\ readers[i].pc = "reading"
    /\ readers' = [readers EXCEPT ![i].end = why, ![i].pc = "done"]
    /\ ptyReaderLock' = 0
    /\ UNCHANGED <<mainVars, renderer, rendererLock, childOut, consumed, itersAfterEof,
                   frame, shellVars, echoVars>>

ReaderLockUnguarded(i) ==
    /\ ProcessAlive
    /\ readers[i].pc = "callback"
    /\ rendererLock' = "reader"
    /\ readers' = [readers EXCEPT ![i].pc = "process"]
    /\ UNCHANGED <<mainVars, renderer, ptyReaderLock, childOut, consumed, itersAfterEof,
                   frame, shellVars, echoVars>>

\* callback: let mut renderer = renderer.lock().unwrap()
ReaderLock(i) ==
    /\ ProcessAlive
    /\ readers[i].pc = "callback"
    /\ rendererLock = "free"
    /\ rendererLock' = "reader"
    /\ readers' = [readers EXCEPT ![i].pc = "process"]
    /\ UNCHANGED <<mainVars, renderer, ptyReaderLock, childOut, consumed, itersAfterEof,
                   frame, shellVars, echoVars>>

\* renderer.process_output(data); the guard is dropped, the loop reads again
ReaderProcess(i) ==
    /\ ProcessAlive
    /\ readers[i].pc = "process"
    /\ renderer' = process_output(renderer, readers[i].buffer)
    /\ rendererLock' = "free"
    /\ readers' = [readers EXCEPT ![i].pc = "read"]
    /\ UNCHANGED <<mainVars, ptyReaderLock, childOut, consumed, itersAfterEof, frame,
                   shellVars, echoVars>>

MainStep ==
    \/ \E s \in Sizes : TerminalNew(s[1], s[2])
    \/ \E e \in NewErrors : TerminalNewFails(e)
    \/ EnableRawMode
    \/ EnterAlternateScreen
    \/ \E home \in Homes : Setup(home)
    \/ LoopCheck
    \/ PollFails
    \/ \E k \in LoopKeys : Quit(k) \/ ToggleStatusBar(k) \/ ToggleRawMode(k) \/ ForwardKey(k)
    \/ \E s \in Sizes : Resize(s[1], s[2])
    \/ \E cwd \in Dirs \cup {CwdError}, home \in Homes : Timeout(cwd, home)
    \/ ResizeRenderer
    \/ RenderLock
    \/ RenderOk
    \/ RenderFails
    \/ RenderPanics
    \/ DisableRawMode
    \/ LeaveAlternateScreen
    \/ Report

ReaderStep ==
    \/ \E i \in DOMAIN readers : ReaderTakesReader(i)
    \/ \E i \in DOMAIN readers, n \in 1 .. Len(childOut) : ReaderRead(i, n)
    \/ \E i \in DOMAIN readers, why \in {"eof", "error"} : ReaderEnds(i, why)
    \/ \E i \in DOMAIN readers : ReaderLock(i)
    \/ \E i \in DOMAIN readers : ReaderProcess(i)

Next == MainStep \/ ReaderStep

Spec == Init /\ [][Next]_vars

(***************************************************************************)
(* The reader thread at work: a session that has reached Running on a      *)
(* small terminal, a child that writes one of ReaderStreams, and a user    *)
(* who at most quits.  No resize and no toggle happens in between.         *)
(***************************************************************************)
\* most pieces of output the child writes
MaxTokens == 2

\* the pieces: "H", red foreground, cursor home, carriage return + line feed
ReaderTokens == {<<72>>, <<ESC, 91, 51, 49, 109>>, <<ESC, 91, 72>>, <<13, 10>>}

RECURSIVE TokenSeqs(_)
TokenSeqs(n) ==
    IF n = 0 THEN {<<>>}
    ELSE TokenSeqs(n - 1) \cup {s \o t : s \in TokenSeqs(n - 1), t \in ReaderTokens}

ReaderStreams == TokenSeqs(MaxTokens)

\* (width, height) of the small terminal: a grid of 2 rows and 3 columns
ReaderSize == <<3, 4>>

InitReader ==
    /\ pc = "loop"
    /\ result = "none"
    /\ exitStatus = -1
    /\ diagnostic = FALSE
    /\ rawMode = TRUE
    /\ altScreen = TRUE
    /\ disableRawCalls = 0
    /\ leaveAltCalls = 0
    /\ term = [width |-> ReaderSize[1], height |-> ReaderSize[2], running |-> TRUE,
               current_dir |-> StartDir]
    /\ COUNTER = 0
    /\ event = NotPolled
    /\ input_bytes = NotTranslated
    /\ ptyWritten = <<>>
    /\ ptySize = [rows |-> 24, cols |-> 80]
    /\ renderer = set_title(TerminalRenderer_new(ReaderSize[1], ReaderSize[2]),
                            update_title(StartDir, NoHome))
    /\ rendererLock = "free"
    /\ ptyReaderLock = 0
    /\ readers = <<NewReader>>
    /\ childOut \in ReaderStreams
    /\ consumed = 0
    /\ frame = <<>>
    /\ itersAfterEof = 0
    /\ line = <<>>
    /\ command = NotParsed
    /\ stdin = <<>>
    /\ shellOut = <<>>
    /\ stderr = <<>>
    /\ twin = renderer

NextReader ==
    \/ ReaderStep
    \/ LoopCheck
    \/ Quit(CtrlQ)
    \/ \E cwd \in Dirs, home \in Homes : Timeout(cwd, home)
    \/ RenderLock
    \/ RenderOk
    \/ DisableRawMode
    \/ LeaveAlternateScreen
    \/ Report

SpecReader == InitReader /\ [][NextReader]_vars

(***************************************************************************)
(* render() seen for its output: the renderer holds some grid, the main    *)
(* thread holds the lock and repaints; frame records the commands.         *)
(***************************************************************************)
\* most pieces of output the painted grid was made from
MaxPainted == 3

\* the pieces: "H", red foreground, blue background, colours reset, colour
\* 255 of the 256-colour palette, truecolor (8, 8, 8)
RenderTokens == {<<72>>,
                 <<ESC, 91, 51, 49, 109>>,
                 <<ESC, 91, 52, 52, 109>>,
                 <<ESC, 91, 48, 109>>,
                 <<ESC, 91, 51, 56, 59, 53, 59, 50, 53, 53, 109>>,
                 <<ESC, 91, 51, 56, 59, 50, 59, 56, 59, 56, 59, 56, 109>>}

RECURSIVE PaintedSeqs(_)
PaintedSeqs(n) ==
    IF n = 0 THEN {<<>>}
    ELSE PaintedSeqs(n - 1) \cup {s \o t : s \in PaintedSeqs(n - 1), t \in RenderTokens}

\* (width, height) of the terminals painted; the last two have no room for
\* both bars
RenderSizes == {<<1, 4>>, <<2, 4>>, <<3, 2>>, <<1, 1>>, <<1, 0>>}

\* the renderers painted: built by new, with or without a toggle of the
\* status bar, then fed
RenderInputs ==
    {process_output(r, fed) :
        r \in {TerminalRenderer_new(s[1], s[2]) : s \in RenderSizes}
              \cup {toggle_status_bar(TerminalRenderer_new(s[1], s[2])) : s \in RenderSizes},
        fed \in PaintedSeqs(MaxPainted)}

InitRender ==
    /\ pc = "rendering"
    /\ result = "none"
    /\ exitStatus = -1
    /\ diagnostic = FALSE
    /\ rawMode = TRUE
    /\ altScreen = TRUE
    /\ disableRawCalls = 0
    /\ leaveAltCalls = 0
    /\ renderer \in RenderInputs
    /\ term = [width |-> renderer.width, height |-> renderer.height, running |-> TRUE,
               current_dir |-> StartDir]
    /\ COUNTER = 0
    /\ event = NoneEvent
    /\ input_bytes = NotTranslated
    /\ ptyWritten = <<>>
    /\ ptySize = [rows |-> 24, cols |-> 80]
    /\ rendererLock = "main"
    /\ ptyReaderLock = 0
    /\ readers = <<NewReader>>
    /\ childOut = renderer.parser.fed
    /\ consumed = Len(childOut)
    /\ frame = <<>>
    /\ itersAfterEof = 0
    /\ line = <<>>
    /\ command = NotParsed
    /\ stdin = <<>>
    /\ shellOut = <<>>
    /\ stderr = <<>>
    /\ twin = renderer

\* self.renderer.lock().unwrap().render()? returns Ok: the commands are on
\* stdout, the guard is dropped
Render ==
    /\ pc = "rendering"
    /\ frame' = render(renderer)
    /\ rendererLock' = "free"
    /\ pc' = "loop"
    /\ UNCHANGED <<result, exitStatus, diagnostic, termIO, term, COUNTER, event,
                   input_bytes, ptyWritten, ptySize, renderer, readerVars, itersAfterEof, shellVars, echoVars>>

NextRender == Render \/ RenderPanics

SpecRender == InitRender /\ [][NextRender]_vars

(***************************************************************************)
(* The PTY channel under any caller: TerminalPty's public operations       *)
(* write, resize, read and spawn_reader called in any order on one         *)
(* channel, with the callback of setup_pty_reader.                         *)
(***************************************************************************)
\* most spawn_reader calls made on the channel
MaxSpawns == 2

\* what the child writes
PtyStreams == {<<72>>, <<72, 105>>}

\* what callers write
PtyWrites == {<<97>>, <<13>>}

InitPty ==
    /\ pc = "setup"
    /\ result = "none"
    /\ exitStatus = -1
    /\ diagnostic = FALSE
    /\ rawMode = TRUE
    /\ altScreen = TRUE
    /\ disableRawCalls = 0
    /\ leaveAltCalls = 0
    /\ term = [width |-> 80, height |-> 24, running |-> FALSE, current_dir |-> StartDir]
    /\ COUNTER = 0
    /\ event = NotPolled
    /\ input_bytes = NotTranslated
    /\ ptyWritten = <<>>
    /\ ptySize = [rows |-> 24, cols |-> 80]
    /\ renderer = TerminalRenderer_new(80, 24)
    /\ rendererLock = "free"
    /\ ptyReaderLock = 0
    /\ readers = <<>>
    /\ childOut \in PtyStreams
    /\ consumed = 0
    /\ frame = <<>>
    /\ itersAfterEof = 0
    /\ line = <<>>
    /\ command = NotParsed
    /\ stdin = <<>>
    /\ shellOut = <<>>
    /\ stderr = <<>>
    /\ twin = renderer

\* pub fn write: write_all and flush
PtyWrite(buf) ==
    /\ Len(ptyWritten) + Len(buf) <= MaxWritten
    /\ ptyWritten' = ptyWritten \o buf
    /\ UNCHANGED <<pc, result, exitStatus, diagnostic, termIO, term, COUNTER, event,
                   input_bytes, ptySize, renderer, rendererLock, readerVars,
                   itersAfterEof, frame, shellVars, echoVars>>

\* pub fn resize: pair.master.resize(PtySize {rows, cols, ..})
PtyResize(rows, cols) ==
    /\ ptySize' = [rows |-> rows, cols |-> cols]
    /\ UNCHANGED <<pc, result, exitStatus, diagnostic, termIO, term, COUNTER, event,
                   input_bytes, ptyWritten, renderer, rendererLock, readerVars,
                   itersAfterEof, frame, shellVars, echoVars>>

\* pub fn read: the caller itself takes the next n bytes from the reader
PtyRead(n) ==
    /\ ptyReaderLock = 0
    /\ n >= 1
    /\ consumed + n <= Len(childOut)
    /\ consumed' = consumed + n
    /\ UNCHANGED <<mainVars, renderer, rendererLock, ptyReaderLock, readers, childOut,
                   itersAfterEof, frame, shellVars, echoVars>>

\* pub fn spawn_reader: Arc::clone(&self.reader), thread::spawn, Ok(())
SpawnReader ==
    /\ Len(readers) < MaxSpawns
    /\ readers' = Append(readers, NewReader)
    /\ UNCHANGED <<mainVars, renderer, rendererLock, ptyReaderLock, childOut, consumed,
                   itersAfterEof, frame, shellVars, echoVars>>

NextPty ==
    \/ \E buf \in PtyWrites : PtyWrite(buf)
    \/ \E s \in Sizes : PtyResize(s[2], s[1])
    \/ \E n \in 1 .. Len(childOut) : PtyRead(n)
    \/ SpawnReader
    \/ ReaderStep

SpecPty == InitPty /\ [][NextPty]_vars

(***************************************************************************)
(* The keyboard at work: a session that has reached Running, a user who    *)
(* types keys of one byte, of several bytes and of none, and quits; the    *)
(* child writes nothing meanwhile.                                         *)
(***************************************************************************)
\* most bytes the typing session writes to the PTY
MaxTyped == 5

\* the keys typed: Up (3 bytes), 'a', Enter, Delete (4 bytes), F13 (none)
TypedKeys == {Key("Up", 0, {}), Key("Char", 97, {}), Key("Enter", 0, {}),
              Key("Delete", 0, {}), Key("F", 13, {})}

InitTyping ==
    /\ pc = "loop"
    /\ result = "none"
    /\ exitStatus = -1
    /\ diagnostic = FALSE
    /\ rawMode = TRUE
    /\ altScreen = TRUE
    /\ disableRawCalls = 0
    /\ leaveAltCalls = 0
    /\ term = [width |-> 80, height |-> 24, running |-> TRUE, current_dir |-> StartDir]
    /\ COUNTER = 0
    /\ event = NotPolled
    /\ input_bytes = NotTranslated
    /\ ptyWritten = <<>>
    /\ ptySize = [rows |-> 24, cols |-> 80]
    /\ renderer = set_title(TerminalRenderer_new(80, 24), update_title(StartDir, NoHome))
    /\ rendererLock = "free"
    /\ ptyReaderLock = 0
    /\ readers = <<NewReader>>
    /\ childOut = <<>>
    /\ consumed = 0
    /\ frame = <<>>
    /\ itersAfterEof = 0
    /\ line = <<>>
    /\ command = NotParsed
    /\ stdin = <<>>
    /\ shellOut = <<>>
    /\ stderr = <<>>
    /\ twin = renderer

NextTyping ==
    \/ LoopCheck
    \/ \E k \in TypedKeys : ForwardKeyWithin(k, MaxTyped)
    \/ Quit(CtrlQ)
    \/ ToggleRawMode(CtrlR)
    \/ RenderLock
    \/ RenderOk
    \/ DisableRawMode
    \/ LeaveAlternateScreen
    \/ Report

SpecTyping == InitTyping /\ [][NextTyping]_vars

(***************************************************************************)
(* The child: the shell of --shell-mode parses each line it reads with     *)
(* Command::try_from (src/command.rs).  A string is the sequence of its    *)
(* characters.                                                             *)
(***************************************************************************)
\* str::split_whitespace, collected: the maximal runs of non-blank characters
RECURSIVE split_from(_, _, _)
split_from(s, word, out) ==
    IF s = <<>>
    THEN IF word = <<>> THEN out ELSE Append(out, word)
    ELSE IF Head(s) = " "
         THEN split_from(Tail(s), <<>>, IF word = <<>> THEN out ELSE Append(out, word))
         ELSE split_from(Tail(s), Append(word, Head(s)), out)

split_whitespace(s) == split_from(s, <<>>, <<>>)

\* [&str]::join(sep)
RECURSIVE join(_, _)
join(words, sep) ==
    IF words = <<>> THEN <<>>
    ELSE IF Len(words) = 1 THEN words[1]
    ELSE words[1] \o sep \o join(Tail(words), sep)

\* Ok(Command::name(a, b)); a command of fewer fields leaves the rest empty
Ok(name, a, b) == [ok |-> TRUE, name |-> name, a |-> a, b |-> b]

\* Err(anyhow!(message))
Err(message) == [ok |-> FALSE, name |-> message, a |-> <<>>, b |-> <<>>]

\* impl TryFrom<&str> for Command
try_from(value) ==
    LET split_value == split_whitespace(value)
        n == Len(split_value)
        cmd == split_value[1]
        rest(from) == join(SubSeq(split_value, from, n), <<" ">>)
    IN  IF n = 0
        THEN Err("Empty command")
        ELSE CASE cmd = <<"e", "x", "i", "t">> -> Ok("Exit", <<>>, <<>>)
              [] cmd = <<"l", "s">> ->
                    IF n > 1 /\ split_value[2] = <<"-", "l">>
                    THEN Ok("LsDetailed", <<>>, <<>>)
                    ELSE Ok("Ls", <<>>, <<>>)
              [] cmd = <<"e", "c", "h", "o">> ->
                    IF n < 2 THEN Err("echo command requires an argument")
                    ELSE Ok("Echo", rest(2), <<>>)
              [] cmd = <<"p", "w", "d">> -> Ok("Pwd", <<>>, <<>>)
              [] cmd = <<"c", "d">> ->
                    IF n < 2 THEN Err("cd command requires an argument")
                    ELSE Ok("Cd", rest(2), <<>>)
              [] cmd = <<"t", "o", "u", "c", "h">> ->
                    IF n < 2 THEN Err("touch command requires an argument")
                    ELSE Ok("Touch", rest(2), <<>>)
              [] cmd = <<"r", "m">> ->
                    IF n < 2 THEN Err("rm command requires an argument")
                    ELSE Ok("Rm", rest(2), <<>>)
              [] cmd = <<"c", "a", "t">> ->
                    IF n < 2 THEN Err("cat command requires an argument")
                    ELSE Ok("Cat", rest(2), <<>>)
              [] cmd = <<"m", "k", "d", "i", "r">> ->
                    IF n < 2 THEN Err("mkdir command requires an argument")
                    ELSE IF n > 2 /\ split_value[2] = <<"-", "p">>
                    THEN Ok("MkdirP", rest(3), <<>>)
                    ELSE Ok("Mkdir", rest(2), <<>>)
              [] cmd = <<"r", "m", "d", "i", "r">> ->
                    IF n < 2 THEN Err("rmdir command requires an argument")
                    ELSE IF n > 2 /\ split_value[2] = <<"-", "r">>
                    THEN Ok("RmdirR", rest(3), <<>>)
                    ELSE Ok("Rmdir", rest(2), <<>>)
              [] cmd = <<"c", "p">> ->
                    IF n < 3
                    THEN Err("cp command requires source and destination arguments")
                    ELSE IF n > 3 /\ split_value[2] = <<"-", "r">>
                    THEN Ok("CpR", split_value[3], split_value[4])
                    ELSE Ok("Cp", split_value[2], split_value[3])
              [] cmd = <<"m", "v">> ->
                    IF n < 3 THEN Err("mv command requires source and destination arguments")
                    ELSE Ok("Mv", split_value[2], split_value[3])
              [] cmd = <<"s", "t", "a", "t">> ->
                    IF n < 2 THEN Err("stat command requires a file path")
                    ELSE Ok("Stat", rest(2), <<>>)
              [] cmd = <<"f", "i", "n", "d">> ->
                    IF n < 3 THEN Err("find command requires directory and pattern arguments")
                    ELSE Ok("Find", split_value[2], split_value[3])
              [] cmd = <<"g", "r", "e", "p">> ->
                    IF n < 3 THEN Err("grep command requires file and pattern arguments")
                    ELSE Ok("Grep", split_value[2], split_value[3])
              [] cmd = <<"l", "n">> ->
                    IF n < 3 THEN Err("ln command requires target and link name arguments")
                    ELSE Ok("Ln", split_value[2], split_value[3])
              [] OTHER -> Err("Unknown command")

\* most words of a command line
MaxWords == 4

\* the words the lines are made of: cp, -r, ls, a, b
ShellWords == {<<"c", "p">>, <<"-", "r">>, <<"l", "s">>, <<"a">>, <<"b">>}

RECURSIVE WordSeqs(_)
WordSeqs(n) ==
    IF n = 0 THEN {<<>>}
    ELSE WordSeqs(n - 1) \cup {Append(ws, w) : ws \in WordSeqs(n - 1), w \in ShellWords}

\* the lines typed: the words with one blank between them, or with blanks
\* in front, doubled in between and behind
ShellLines ==
    {join(ws, <<" ">>) : ws \in WordSeqs(MaxWords)}
    \cup {<<" ">> \o join(ws, <<" ", " ">>) \o <<" ">> : ws \in WordSeqs(MaxWords)}

InitShell ==
    /\ pc = "start"
    /\ result = "none"
    /\ exitStatus = -1
    /\ diagnostic = FALSE
    /\ rawMode = FALSE
    /\ altScreen = FALSE
    /\ disableRawCalls = 0
    /\ leaveAltCalls = 0
    /\ term = [width |-> 0, height |-> 0, running |-> FALSE, current_dir |-> <<>>]
    /\ COUNTER = 0
    /\ event = NotPolled
    /\ input_bytes = NotTranslated
    /\ ptyWritten = <<>>
    /\ ptySize = [rows |-> 0, cols |-> 0]
    /\ renderer = TerminalRenderer_new(0, 0)
    /\ rendererLock = "free"
    /\ ptyReaderLock = 0
    /\ readers = <<>>
    /\ childOut = <<>>
    /\ consumed = 0
    /\ frame = <<>>
    /\ itersAfterEof = 0
    /\ line \in ShellLines
    /\ command = NotParsed
    /\ stdin = <<>>
    /\ shellOut = <<>>
    /\ stderr = <<>>
    /\ twin = renderer

\* handle_new_line: let command: Command = line.try_into()
ParseLine ==
    /\ command = NotParsed
    /\ command' = try_from(line)
    /\ UNCHANGED <<mainVars, renderer, rendererLock, readerVars, itersAfterEof, frame, line,
                   stdin, shellOut, echoVars>>

NextShell == ParseLine

SpecShell == InitShell /\ [][NextShell]_vars

(***************************************************************************)
(* The loop of spawn_user_input_handler: prompt, read a line, handle it.   *)
(* pc is the position of the child's task: "prompt", "next_line",          *)
(* "handle", "exited".                                                     *)
(***************************************************************************)
\* most lines on the child's standard input
MaxLines == 2

\* the loop is followed until it has printed this much
MaxShellOut == 6

\* str::trim: the blanks in front and behind are dropped
trim(s) ==
    LET RECURSIVE trim_start(_)
        trim_start(t) == IF t # <<>> /\ Head(t) = " " THEN trim_start(Tail(t)) ELSE t
        RECURSIVE trim_end(_)
        trim_end(t) == IF t # <<>> /\ t[Len(t)] = " "
                       THEN trim_end(SubSeq(t, 1, Len(t) - 1)) ELSE t
    IN  trim_end(trim_start(s))

\* the lines typed: exit, ls, cp (its arguments missing), x (no command),
\* help with a blank in front, and a blank line
LoopLines == {<<"e", "x", "i", "t">>, <<"l", "s">>, <<"c", "p">>, <<"x">>,
              <<" ", "h", "e", "l", "p">>, <<" ">>}

InitLoop ==
    /\ pc = "prompt"
    /\ result = "none"
    /\ exitStatus = -1
    /\ diagnostic = FALSE
    /\ rawMode = FALSE
    /\ altScreen = FALSE
    /\ disableRawCalls = 0
    /\ leaveAltCalls = 0
    /\ term = [width |-> 0, height |-> 0, running |-> FALSE, current_dir |-> <<>>]
    /\ COUNTER = 0
    /\ event = NotPolled
    /\ input_bytes = NotTranslated
    /\ ptyWritten = <<>>
    /\ ptySize = [rows |-> 0, cols |-> 0]
    /\ renderer = TerminalRenderer_new(0, 0)
    /\ rendererLock = "free"
    /\ ptyReaderLock = 0
    /\ readers = <<>>
    /\ childOut = <<>>
    /\ consumed = 0
    /\ frame = <<>>
    /\ itersAfterEof = 0
    /\ line = <<>>
    /\ command = NotParsed
    /\ stdin \in UNION {[1 .. n -> LoopLines] : n \in 0 .. MaxLines}
    /\ shellOut = <<>>
    /\ stderr = <<>>
    /\ twin = renderer

\* generate_prompt()?, stdout.write(prompt)?, stdout.flush()? all return Ok
Prompt ==
    /\ pc = "prompt"
    /\ Len(shellOut) < MaxShellOut
    /\ shellOut' = Append(shellOut, "prompt")
    /\ pc' = "next_line"
    /\ UNCHANGED <<result, exitStatus, diagnostic, termIO, term, COUNTER, event, input_bytes,
                   ptyWritten, ptySize, renderer, rendererLock, readerVars, itersAfterEof,
                   frame, line, command, stdin, echoVars>>

\* one of them returns Err: the task returns it and main prints
\* "Shell Error:"; the process ends with status 0
PromptFails ==
    /\ pc = "prompt"
    /\ result' = "shell"
    /\ diagnostic' = TRUE
    /\ exitStatus' = 0
    /\ pc' = "exited"
    /\ UNCHANGED <<termIO, term, COUNTER, event, input_bytes, ptyWritten, ptySize, renderer,
                   rendererLock, readerVars, itersAfterEof, frame, shellVars, echoVars>>

\* reader.next_line() returns Ok(Some(line)): an empty line goes back to
\* the prompt, help prints the help, any other line is handled
NextLine ==
    /\ pc = "next_line"
    /\ stdin # <<>>
    /\ line' = trim(Head(stdin))
    /\ stdin' = Tail(stdin)
    /\ command' = NotParsed
    /\ IF line' = <<>>
       THEN pc' = "prompt" /\ shellOut' = shellOut
       ELSE IF line' = <<"h", "e", "l", "p">>
            THEN pc' = "prompt" /\ shellOut' = Append(shellOut, "help")
            ELSE pc' = "handle" /\ shellOut' = shellOut
    /\ UNCHANGED <<result, exitStatus, diagnostic, termIO, term, COUNTER, event, input_bytes,
                   ptyWritten, ptySize, renderer, rendererLock, readerVars, itersAfterEof,
                   frame, echoVars>>

\* reader.next_line() returns Ok(None) (standard input ended) or Err: the
\* if let does not match and the loop goes round
NextLineEnds(why) ==
    /\ pc = "next_line"
    /\ why = "eof" => stdin = <<>>
    /\ pc' = "prompt"
    /\ UNCHANGED <<result, exitStatus, diagnostic, termIO, term, COUNTER, event, input_bytes,
                   ptyWritten, ptySize, renderer, rendererLock, readerVars, itersAfterEof,
                   frame, shellVars, echoVars>>

HandleNewLineStopsOnError(helper_ok) ==
    LET parsed == try_from(line)
        fallible == parsed.ok /\ parsed.name \notin {"Exit", "Echo"}
        returned == IF fallible /\ ~helper_ok THEN Err("helper") ELSE parsed
    IN  /\ pc = "handle"
        /\ ~fallible => helper_ok
        /\ command' = returned
        /\ shellOut' = IF ~returned.ok THEN Append(shellOut, "Error")
                       ELSE IF returned.name = "Exit" THEN Append(shellOut, "Goodbye")
                       ELSE IF returned.name = "Cd" THEN shellOut
                       ELSE Append(shellOut, "result")
        /\ IF returned.ok /\ returned.name # "Exit"
           THEN pc' = "prompt" /\ exitStatus' = exitStatus
           ELSE pc' = "exited" /\ exitStatus' = 0
        /\ UNCHANGED <<result, diagnostic, termIO, term, COUNTER, event, input_bytes,
                       ptyWritten, ptySize, renderer, rendererLock, readerVars, itersAfterEof,
                       frame, line, stdin, echoVars>>

\* handle_new_line(line) and the match on what it returns: the line is
\* parsed; every command but exit and echo calls a helper that may fail
\* (helper_ok), and its arm prints only after the helper returned Ok; Err
\* is printed after "Error:", exit prints the farewell and breaks
HandleNewLine(helper_ok) ==
    LET parsed == try_from(line)
        fallible == parsed.ok /\ parsed.name \notin {"Exit", "Echo"}
        returned == IF fallible /\ ~helper_ok THEN Err("helper") ELSE parsed
    IN  /\ pc = "handle"
        /\ ~fallible => helper_ok
        /\ command' = returned
        /\ shellOut' = IF ~returned.ok THEN Append(shellOut, "Error")
                       ELSE IF returned.name = "Exit" THEN Append(shellOut, "Goodbye")
                       ELSE IF returned.name = "Cd" THEN shellOut
                       ELSE Append(shellOut, "result")
        /\ IF returned.ok /\ returned.name = "Exit"
           THEN pc' = "exited" /\ exitStatus' = 0
           ELSE pc' = "prompt" /\ exitStatus' = exitStatus
        /\ UNCHANGED <<result, diagnostic, termIO, term, COUNTER, event, input_bytes,
                       ptyWritten, ptySize, renderer, rendererLock, readerVars, itersAfterEof,
                       frame, line, stdin, echoVars>>

NextLoop ==
    \/ Prompt
    \/ PromptFails
    \/ NextLine
    \/ \E why \in {"eof", "error"} : NextLineEnds(why)
    \/ \E helper_ok \in BOOLEAN : HandleNewLine(helper_ok)

SpecLoop == InitLoop /\ [][NextLoop]_vars

(***************************************************************************)
(* The translator alone: any key event of AllKeys is translated.           *)
(***************************************************************************)
Translate(key) ==
    /\ event' = KeyEvent(key)
    /\ input_bytes' = process_key_input(key)
    /\ UNCHANGED <<pc, result, exitStatus, diagnostic, termIO, term, COUNTER, ptyWritten,
                   ptySize, renderer, rendererLock, readerVars, itersAfterEof, frame, shellVars, echoVars>>

NextKeys == \E k \in AllKeys : Translate(k)

SpecKeys == Init /\ [][NextKeys]_vars

(***************************************************************************)
(* The translation table of the specification (section 4.3), written       *)
(* from its rows.                                                          *)
(***************************************************************************)
IsLetter(c) == (c >= 65 /\ c <= 90) \/ (c >= 97 /\ c <= 122)

Lowercase(c) == IF c >= 65 /\ c <= 90 THEN c + 32 ELSE c

\* the codes of F5 .. F12: 15 .. 24 without 16 and 22
FCodes == <<15, 17, 18, 19, 20, 21, 23, 24>>

Digit(d) == 48 + d

TableHasRow(key) ==
    \/ key.kind \in PlainKinds
    \/ key.kind = "F" /\ key.arg >= 1 /\ key.arg <= 12
    \/ key.kind = "Char" /\ "CONTROL" \notin key.mods /\ key.arg <= 255
    \/ key.kind = "Char" /\ "CONTROL" \in key.mods /\ IsLetter(key.arg)

TableBytes(key) ==
    CASE key.kind = "Char" /\ "CONTROL" \notin key.mods -> <<key.arg>>
      [] key.kind = "Char" /\ "CONTROL" \in key.mods -> <<Lowercase(key.arg) - 97 + 1>>
      [] key.kind = "Enter" -> <<13>>
      [] key.kind = "Tab" -> <<9>>
      [] key.kind = "Backspace" -> <<127>>
      [] key.kind = "Esc" -> <<27>>
      [] key.kind \in {"Up", "Down", "Right", "Left"} ->
            <<27, 91, CASE key.kind = "Up" -> 65 [] key.kind = "Down" -> 66
                        [] key.kind = "Right" -> 67 [] key.kind = "Left" -> 68>>
      [] key.kind = "Home" -> <<27, 91, 72>>
      [] key.kind = "End" -> <<27, 91, 70>>
      [] key.kind \in {"PageUp", "PageDown", "Delete", "Insert"} ->
            <<27, 91, CASE key.kind = "PageUp" -> Digit(5) [] key.kind = "PageDown" -> Digit(6)
                        [] key.kind = "Delete" -> Digit(3) [] key.kind = "Insert" -> Digit(2),
              126>>
      [] key.kind = "F" /\ key.arg <= 4 -> <<27, 79, 80 + (key.arg - 1)>>
      [] key.kind = "F" /\ key.arg >= 5 ->
            <<27, 91, Digit(FCodes[key.arg - 4] \div 10), Digit(FCodes[key.arg - 4] % 10), 126>>

\* C1: every key event that matches a row of the translation table is
\* translated to exactly the bytes of that row; Ctrl+letter gives the one
\* byte (lowercase ASCII value - 'a' + 1) for either case of the letter, and
\* F5..F12 give ESC [ 15~, 17~, 18~, 19~, 20~, 21~, 23~, 24~.
C1_TableBytes ==
    (event.type = "Key" /\ TableHasRow(event.key))
        => input_bytes = TableBytes(event.key)

\* Ctrl+Shift+Q (an uppercase letter) has been translated to the byte 17
C1_Witness ==
    /\ event = KeyEvent(Key("Char", 81, {"CONTROL", "SHIFT"}))
    /\ input_bytes = <<17>>

(***************************************************************************)
(* Keys without a row.                                                     *)
(***************************************************************************)
NoRow(key) ==
    \/ key.kind \in OtherKinds
    \/ key.kind = "F" /\ ~(key.arg >= 1 /\ key.arg <= 12)
    \/ key.kind = "Char" /\ "CONTROL" \in key.mods /\ ~IsLetter(key.arg)

\* a step of the event loop that polled the key event event' and handled it
KeyHandled == pc = "poll" /\ event'.type = "Key"

\* C2 as stated: every key event without a row, a Ctrl-modified character
\* that is not a letter included, is translated to the empty sequence and
\* nothing is written to the PTY for it.
C2_NoRowIsEmpty ==
    [][(KeyHandled /\ NoRow(event'.key))
        => (input_bytes' = <<>> /\ ptyWritten' = ptyWritten)]_vars

\* C2 as amended: a key code without an arm and a function key outside
\* F1..F12 are translated to the empty sequence and nothing is written; a
\* Ctrl-modified character that is not a letter is translated to its one
\* byte (code point mod 256), like the character without Ctrl, and a
\* successful write appends that byte to what the PTY received.
C2_NoRowAmended ==
    [][(KeyHandled /\ NoRow(event'.key))
        => IF event'.key.kind = "Char"
           THEN /\ input_bytes' = <<event'.key.arg % 256>>
                /\ pc' \in {"render", "report"}
                /\ (pc' = "render" => ptyWritten' = ptyWritten \o input_bytes')
           ELSE /\ input_bytes' = <<>>
                /\ ptyWritten' = ptyWritten
                /\ pc' = "render"]_vars

\* Ctrl+'1' has been handled: translated to '1' and written to the PTY
C2_Witness ==
    /\ pc = "render"
    /\ event = KeyEvent(Key("Char", 49, {"CONTROL"}))
    /\ input_bytes = <<49>>
    /\ ptyWritten = <<49>>

\* C3: a key event that is a reserved shortcut (Ctrl+Q, Ctrl+B, Ctrl+R) is
\* handled before the translator is consulted (input_bytes is never
\* computed), writes no byte to the PTY and goes back to the head of the loop.
C3_ShortcutsNotForwarded ==
    [][(KeyHandled /\ event'.key \in {CtrlQ, CtrlB, CtrlR})
        => (input_bytes' = NotTranslated /\ ptyWritten' = ptyWritten /\ pc' = "loop")]_vars

\* Ctrl+R has been handled: the raw-debug flag is on
C3_Witness ==
    /\ pc = "loop"
    /\ event = KeyEvent(CtrlR)
    /\ renderer.raw_mode
    /\ input_bytes = NotTranslated

\* the shutdown that a quit shortcut started
QuitShutdown ==
    /\ event = KeyEvent(CtrlQ)
    /\ pc \in {"disable_raw", "leave_alt", "report", "exited"}

\* C4: the quit shortcut, pressed while Running, clears running without
\* writing a byte; the loop then leaves for the cleanup, nothing is written
\* during it, and disable_raw_mode is called exactly once on that path.
C4_QuitShutsDown ==
    /\ [][(KeyHandled /\ event'.key = CtrlQ)
            => (~term'.running /\ ptyWritten' = ptyWritten /\ pc' = "loop")]_vars
    /\ [][(pc = "loop" /\ ~term.running /\ pc' # pc) => pc' = "disable_raw"]_vars
    /\ [][((QuitShutdown \/ (pc = "loop" /\ ~term.running)) => ptyWritten' = ptyWritten)]_vars
    /\ [](QuitShutdown => disableRawCalls = (IF pc = "disable_raw" THEN 0 ELSE 1))

\* a session ended by the quit shortcut: raw mode was disabled by one call
C4_Witness ==
    /\ pc = "exited"
    /\ event = KeyEvent(CtrlQ)
    /\ result = "ok"
    /\ disableRawCalls = 1
    /\ ~rawMode

\* C5: once a PTY read has returned 0 bytes, the loop leaves Running within
\* one polling iteration: it never begins a second iteration after the EOF.
C5_EofEndsLoop == itersAfterEof <= 1

\* C6: when a PTY write or another mid-session I/O call fails, the real
\* terminal is restored (raw mode off, alternate screen left) before the
\* error is reported.
C6_IoErrorRestoresTerminal ==
    (pc \in {"report", "exited"} /\ result \in {"write", "resize", "poll"})
        => (~rawMode /\ ~altScreen)

\* C7: when render fails, both cleanup steps are still attempted before run
\* returns the error.
C7_RenderErrorCleansUp ==
    (pc \in {"report", "exited"} /\ result = "render")
        => (disableRawCalls >= 1 /\ leaveAltCalls >= 1)

\* C8: no startup failure returns with a terminal-mode change in effect.
C8_StartupFailureRestored ==
    (pc \in {"report", "exited"} /\ result \in NewErrors \cup {"raw_mode", "alt_screen"})
        => (~rawMode /\ ~altScreen)

\* C9: the process ends with a non-zero status and a diagnostic when PTY
\* allocation, child spawn or raw-mode setup fails, and with status zero
\* after a clean quit.
C9_ExitStatus ==
    /\ (pc = "exited" /\ result \in {"pty_alloc", "spawn", "raw_mode"})
            => (exitStatus # 0 /\ diagnostic)
    /\ (pc = "exited" /\ result = "ok") => exitStatus = 0

\* C10: while Running every handled event other than quit (a forwarded
\* key, a toggle shortcut, a Resize, a timeout) that raised no error leads
\* to a render before the loop polls again.
C10_AlwaysRender ==
    [][(/\ pc = "poll"
        /\ event'.type \in {"Key", "Resize", "None"}
        /\ event' # KeyEvent(CtrlQ)
        /\ pc' # "report")
        => pc' \in {"render", "resize_renderer"}]_vars

(***************************************************************************)
(* The Screen Model's dimensions.                                          *)
(***************************************************************************)
\* the chrome rows: the title bar, and the status bar when it is shown
ChromeRows(status_bar) == IF status_bar THEN 2 ELSE 1

\* the rows left for content, never below zero
ContentRows(height, status_bar) ==
    IF height >= ChromeRows(status_bar) THEN height - ChromeRows(status_bar) ELSE 0

\* C11: in every reachable state of the renderer the grid has exactly
\* `width` columns and `height` less the reserved rows (2 with the status
\* bar shown, 1 with it hidden, never below 0) rows, and that is the content
\* height render() paints.
C11_GridMatchesContentArea ==
    /\ renderer.parser.cols = renderer.width
    /\ renderer.parser.rows = ContentRows(renderer.height, renderer.show_status_bar)
    /\ content_height(renderer) = renderer.parser.rows

\* the status bar was hidden, the debug echo switched on, the terminal
\* resized to 100 x 40 and the child's output processed
C11_Witness ==
    /\ ~renderer.show_status_bar
    /\ renderer.raw_mode
    /\ renderer.width = 100
    /\ renderer.height = 40
    /\ renderer.parser.rows = 39
    /\ renderer.parser.fed # <<>>

(***************************************************************************)
(* Resize events.                                                          *)
(***************************************************************************)
\* width, height and grid of the renderer
Dims(r) == <<r.width, r.height, r.parser.rows, r.parser.cols>>

\* C12: on every Resize event the PTY is resized first and the renderer
\* second: the step that takes the event leaves the renderer alone and
\* gives the PTY the new size unless the PTY resize fails; the renderer's
\* dimensions change (other than by the status bar toggle) only to a size
\* the PTY already has; once the PTY resize has failed they never change.
C12_PtyBeforeRenderer ==
    [][/\ (pc = "poll" /\ event'.type = "Resize")
            => /\ renderer' = renderer
               /\ pc' = "report" => ptySize' = ptySize
               /\ pc' # "report" => ptySize' = [rows |-> event'.height, cols |-> event'.width]
       /\ (/\ pc # "start"
           /\ Dims(renderer') # Dims(renderer)
           /\ renderer'.show_status_bar = renderer.show_status_bar)
            => (ptySize.rows = renderer'.height /\ ptySize.cols = renderer'.width)
       /\ result = "resize" => Dims(renderer') = Dims(renderer)]_vars

\* a Resize(100, 40) has been handled: PTY and renderer both have the size
C12_Witness ==
    /\ pc = "render"
    /\ event = ResizeEvent(100, 40)
    /\ ptySize = [rows |-> 40, cols |-> 100]
    /\ renderer.width = 100
    /\ renderer.height = 40

\* C13: after a Resize(width, height) event has been handled, the size the
\* PTY reports to the child (rows, cols) is the size of the Screen Model:
\* height less the chrome rows, by width columns.
C13_PtySizeMatchesScreenModel ==
    (pc = "render" /\ event.type = "Resize")
        => /\ ptySize.rows = renderer.parser.rows
           /\ ptySize.cols = renderer.parser.cols

(***************************************************************************)
(* The two toggles.                                                        *)
(***************************************************************************)
\* a blank grid of the content area that goes with the flag
BlankGrid(width, height, status_bar) ==
    [rows |-> ContentRows(height, status_bar), cols |-> width, fed |-> <<>>]

\* the event loop takes the key: Ctrl+B or Ctrl+R
ToggleHandled(key) == pc = "poll" /\ event' = KeyEvent(key)

\* C14 as stated: toggle_status_bar() and toggle_raw_mode() each flip
\* exactly their own flag, and each leaves the Screen Model reinitialised
\* to the content height of the new flags.
C14_TogglesReinitialise ==
    [][/\ ToggleHandled(CtrlB)
            => renderer' = [renderer EXCEPT
                              !.show_status_bar = ~renderer.show_status_bar,
                              !.parser = BlankGrid(renderer.width, renderer.height,
                                                   ~renderer.show_status_bar)]
       /\ ToggleHandled(CtrlR)
            => renderer' = [renderer EXCEPT
                              !.raw_mode = ~renderer.raw_mode,
                              !.parser = BlankGrid(renderer.width, renderer.height,
                                                   renderer.show_status_bar)]]_vars

\* C14 amended: toggle_status_bar() flips exactly show_status_bar and
\* leaves the Screen Model reinitialised to the content height of the new
\* flag; toggle_raw_mode() flips exactly raw_mode and leaves the Screen
\* Model, its dimensions and its content, as it was.
C14_TogglesAmended ==
    [][/\ ToggleHandled(CtrlB)
            => renderer' = [renderer EXCEPT
                              !.show_status_bar = ~renderer.show_status_bar,
                              !.parser = BlankGrid(renderer.width, renderer.height,
                                                   ~renderer.show_status_bar)]
       /\ ToggleHandled(CtrlR)
            => renderer' = [renderer EXCEPT !.raw_mode = ~renderer.raw_mode]]_vars

\* Ctrl+R was just handled with the status bar hidden earlier: the grid
\* still has the 23 rows and the content it had
C14_Witness ==
    /\ pc = "loop"
    /\ event = KeyEvent(CtrlR)
    /\ renderer.raw_mode
    /\ ~renderer.show_status_bar
    /\ renderer.height = 24
    /\ renderer.parser.rows = 23
    /\ renderer.parser.fed # <<>>

(***************************************************************************)
(* Resizing the Screen Model.                                              *)
(***************************************************************************)
\* the renderer half of a Resize event is carried out in this step
ScreenModelResized == pc = "resize_renderer" /\ pc' = "render"

\* C15 as stated: resizing twice to the same (rows, cols) leaves the cell
\* contents as after the first resize, and resizing to the dimensions the
\* model already has leaves its cell contents unchanged.
C15_ResizeIdempotent ==
    [][ScreenModelResized
        => /\ resize(renderer', event.width, event.height).parser = renderer'.parser
           /\ (renderer.parser.cols = renderer'.parser.cols
               /\ renderer.parser.rows = renderer'.parser.rows)
                => Parser_screen(renderer'.parser) = Parser_screen(renderer.parser)]_vars

\* C15 amended: resizing twice to the same (rows, cols) leaves the cell
\* contents as after the first resize; every resize, one to the dimensions
\* the model already has included, leaves a blank grid with the cursor at
\* the origin.
C15_ResizeBlanks ==
    [][ScreenModelResized
        => /\ resize(renderer', event.width, event.height).parser = renderer'.parser
           /\ Parser_screen(renderer'.parser) =
                [rows |-> ContentRows(event.height, renderer.show_status_bar),
                 cols |-> event.width, cells |-> <<>>, cursor |-> <<0, 0>>]]_vars

\* a Resize(80, 24) was handled after all of the child's output had been
\* processed: the grid is blank
C15_Witness ==
    /\ pc = "render"
    /\ event = ResizeEvent(80, 24)
    /\ renderer.width = 80
    /\ renderer.height = 24
    /\ consumed = Len(childOut)
    /\ \A i \in DOMAIN readers : readers[i].pc \in {"read", "reading", "done"}
    /\ Parser_screen(renderer.parser).cells = <<>>

(***************************************************************************)
(* The child's output on its way to the Screen Model.                      *)
(***************************************************************************)
\* the bytes read from the PTY that no callback has processed yet
RECURSIVE PendingBytes(_)
PendingBytes(i) ==
    IF i > Len(readers) THEN <<>>
    ELSE (IF readers[i].pc \in {"callback", "process"} THEN readers[i].buffer ELSE <<>>)
         \o PendingBytes(i + 1)

\* the bytes every finished process_output call was given, as one sequence
ProcessedBytes == SubSeq(childOut, 1, consumed - Len(PendingBytes(1)))

\* the renderer with a Parser of the same dimensions that was fed nothing
FreshParser(r) == [r EXCEPT !.parser = [rows |-> r.parser.rows, cols |-> r.parser.cols,
                                        fed |-> <<>>]]

At(op) == {i \in 1 .. Len(frame) : frame[i].op = op}

Least(S) == CHOOSE i \in S : \A j \in S : i <= j

Greatest(S) == CHOOSE i \in S : \A j \in S : i >= j

\* the content rows are painted between the ResetColor that ends the title
\* bar and the next ResetColor
ContentIdx ==
    LET first == Least(At("ResetColor"))
        second == Least({i \in At("ResetColor") : i > first})
    IN  {i \in 1 .. Len(frame) : first < i /\ i < second}

\* the positions that paint a content cell
CellPaints == ContentIdx \cap At("Print")

\* the cell (y, x) painted at position i: the row of the last MoveTo less
\* the title bar, the column counted from it
CellOf(i) ==
    LET moved == Greatest({j \in ContentIdx \cap At("MoveTo") : j < i})
    IN  <<frame[moved].y - 1, Cardinality({j \in CellPaints : moved < j /\ j < i})>>

\* C17: within one render() a foreground (background) colour change is
\* emitted for a content cell only if the cell's foreground (background)
\* colour differs from that of the content cell painted before it, the last
\* cell of the row above included; it is never emitted when they are equal.
C17_ColorChangeOnlyOnDifference ==
    frame # <<>> =>
        \A k \in ContentIdx \cap (At("SetForegroundColor") \cup At("SetBackgroundColor")) :
            LET screen == Parser_screen(renderer.parser)
                here == CellOf(Least({i \in CellPaints : i > k}))
                before == {i \in CellPaints : i < k}
                there == CellOf(Greatest(before))
                cell == Screen_cell(screen, here[1], here[2])
                previous == Screen_cell(screen, there[1], there[2])
            IN  IF frame[k].op = "SetForegroundColor"
                THEN /\ frame[k].color = map_vt100_color(cell.fg)
                     /\ before # {} => previous.fg # cell.fg
                ELSE /\ frame[k].color = map_vt100_color(cell.bg)
                     /\ before # {} => previous.bg # cell.bg

\* a grid one column wide whose two rows both hold a red cell was painted
\* with a single foreground change
C17_Witness ==
    /\ frame # <<>>
    /\ renderer.parser.cols = 1
    /\ Screen_cell(Parser_screen(renderer.parser), 0, 0).fg = Idx(1)
    /\ Screen_cell(Parser_screen(renderer.parser), 1, 0).fg = Idx(1)
    /\ Cardinality(ContentIdx \cap At("SetForegroundColor")) = 1
    /\ Cardinality(CellPaints) = 2

(***************************************************************************)
(* The two threads and the Screen Model.                                   *)
(***************************************************************************)
\* the reader threads whose callback is inside process_output
InsideCallback == {i \in DOMAIN readers : readers[i].pc = "process"}

\* the main thread is inside render()
InsideRender == pc = "rendering"

\* C18: the reader callback's process_output and every access of the main
\* thread to the Screen Model (render, resize, the toggles, set_title)
\* exclude each other: never is one thread inside while the other is, the
\* main thread changes the renderer only while no callback is inside, and
\* the renderer does not change while a render is under way, so that a
\* render never sees a partly processed chunk.
C18_MutualExclusion ==
    /\ [](/\ InsideRender => InsideCallback = {}
          /\ InsideRender => rendererLock = "main"
          /\ InsideCallback # {} => rendererLock = "reader"
          /\ Cardinality(InsideCallback) <= 1)
    /\ [][/\ (renderer' # renderer /\ readers' = readers) => InsideCallback = {}
          /\ InsideRender => renderer' = renderer
          /\ renderer'.parser.fed # renderer.parser.fed /\ readers' # readers
                => \E i \in InsideCallback :
                      renderer' = process_output(renderer, readers[i].buffer)]_vars

\* the reader has read a chunk and waits for the lock while the main thread
\* renders
C18_Witness ==
    /\ InsideRender
    /\ rendererLock = "main"
    /\ \E i \in DOMAIN readers : readers[i].pc = "callback" /\ readers[i].buffer # <<>>

(***************************************************************************)
(* The reader threads of one PTY channel.                                  *)
(***************************************************************************)
\* the reader threads that have not ended
LiveReaders == {i \in DOMAIN readers : readers[i].pc # "done"}

\* C19: at most one background reader thread ever exists per PTY channel:
\* a second spawn_reader call on the same channel starts no second live
\* reader.
C19_SingleReader == Cardinality(LiveReaders) <= 1

\* the moves of a reader thread: read, then the callback, then read again,
\* or out of the loop from a read
ReaderMoves == {<<"read", "reading">>, <<"reading", "callback">>, <<"callback", "process">>,
                <<"process", "read">>, <<"reading", "done">>}

\* C20: the reader thread invokes the callback once for every non-empty
\* read, with exactly the bytes of that read and in read order; it ends on,
\* and only on, a 0-byte read or a read error, after which it reads no more
\* and calls back no more; quitting the event loop does not stop it.
C20_ReaderDelivery ==
    /\ [](renderer.parser.fed \o PendingBytes(1) = SubSeq(childOut, 1, consumed))
    /\ [][/\ \A i \in DOMAIN readers :
                /\ readers'[i].pc # readers[i].pc
                     => <<readers[i].pc, readers'[i].pc>> \in ReaderMoves
                /\ (readers[i].pc = "reading" /\ readers'[i].pc = "callback")
                     => /\ consumed' > consumed
                        /\ readers'[i].buffer = SubSeq(childOut, consumed + 1, consumed')
                /\ (readers[i].pc = "process" /\ readers'[i].pc = "read")
                     => renderer'.parser.fed = renderer.parser.fed \o readers[i].buffer
                /\ (readers[i].pc = "reading" /\ readers'[i].pc = "done")
                     => readers'[i].end \in {"eof", "error"} /\ consumed' = consumed
                /\ readers[i].pc # "done" => readers[i].end = "none"
                /\ readers[i].pc = "done" => readers'[i] = readers[i]
          /\ consumed' # consumed
                => \E i \in DOMAIN readers :
                      readers[i].pc = "reading" /\ readers'[i].pc = "callback"
          /\ renderer'.parser.fed # renderer.parser.fed
                => \E i \in DOMAIN readers :
                      readers[i].pc = "process" /\ readers'[i].pc = "read"
          /\ (term.running /\ ~term'.running) => readers' = readers]_vars

\* the event loop has quit and run is about to return while the reader is
\* inside the callback with its second chunk
C20_Witness ==
    /\ ~term.running
    /\ pc = "report"
    /\ readers[1].pc = "process"
    /\ readers[1].buffer # <<>>
    /\ renderer.parser.fed # <<>>
    /\ consumed = Len(renderer.parser.fed) + Len(readers[1].buffer)

(***************************************************************************)
(* A Resize event and the reader thread.                                   *)
(***************************************************************************)
\* the PTY has the new size, the renderer half of the Resize is still to do
ResizeInProgress == pc = "resize_renderer"

\* a Resize event has been handled and the iteration goes on to repaint
ResizeDone == pc \in {"render", "rendering"} /\ event.type = "Resize"

\* C21: a Resize event racing with reader callbacks is never fatal: while
\* the main thread is between the PTY resize and the reinitialisation of
\* the Screen Model, whatever the reader thread does, no error is recorded,
\* the process lives, the loop stays Running and the renderer's lock is
\* free or held by a callback that will release it; the main thread's only
\* move from there is on to the repaint; and from then until the repaint
\* the Screen Model has the new dimensions, callbacks processed in between
\* included.
C21_ResizeRaceNotFatal ==
    /\ [](ResizeInProgress
            => /\ result = "none"
               /\ exitStatus = -1
               /\ term.running
               /\ rendererLock \in {"free", "reader"}
               /\ rendererLock = "reader" => InsideCallback # {})
    /\ [](ResizeDone
            => /\ result = "none"
               /\ term.running
               /\ renderer.width = event.width
               /\ renderer.height = event.height
               /\ renderer.parser.cols = event.width
               /\ renderer.parser.rows =
                    ContentRows(event.height, renderer.show_status_bar))
    /\ [][ResizeInProgress => pc' \in {"resize_renderer", "render"}]_vars

\* Resize(100, 40) was handled while a chunk was in flight: the callback
\* ran after the Screen Model was reinitialised, the grid is 38 x 100 and
\* holds the chunk, the loop is Running
C21_Witness ==
    /\ pc = "render"
    /\ event = ResizeEvent(100, 40)
    /\ term.running
    /\ result = "none"
    /\ renderer.parser.rows = 38
    /\ renderer.parser.cols = 100
    /\ renderer.parser.fed # <<>>

(***************************************************************************)
(* The orchestrator's lifecycle.                                           *)
(***************************************************************************)
\* Starting: main, Terminal::new and run up to self.running = true;
\* Running: inside the event loop; ShuttingDown: the loop has been left, by
\* its condition or by a `?`
Phase ==
    IF pc \in {"start", "enable_raw", "enter_alt", "setup"} THEN "Starting"
    ELSE IF pc \in {"poll", "resize_renderer", "render", "rendering"}
            \/ (pc = "loop" /\ term.running) THEN "Running"
    ELSE "ShuttingDown"

PhaseMoves == {<<"Starting", "Running">>, <<"Starting", "ShuttingDown">>,
               <<"Running", "ShuttingDown">>}

\* C22: the lifecycle only moves forward through Starting, Running,
\* ShuttingDown: once the loop has left Running it is never re-entered, and
\* from then on no event is polled, no key translated, no byte written to
\* the PTY, the PTY is not resized, the renderer's lock is not taken by the
\* main thread and no frame is rendered.
C22_LifecycleForward ==
    [][/\ Phase' # Phase => <<Phase, Phase'>> \in PhaseMoves
       /\ Phase = "ShuttingDown"
            => /\ event' = event
               /\ input_bytes' = input_bytes
               /\ ptyWritten' = ptyWritten
               /\ ptySize' = ptySize
               /\ term' = term
               /\ frame' = frame
               /\ pc' \notin {"poll", "resize_renderer", "render", "rendering"}
               /\ rendererLock' # "main"]_vars

\* a key was forwarded while Running, then Ctrl+Q: the loop has been left
\* and the terminal is being restored, with the forwarded byte all the PTY
\* ever got
C22_Witness ==
    /\ Phase = "ShuttingDown"
    /\ pc = "leave_alt"
    /\ ~term.running
    /\ event = KeyEvent(CtrlQ)
    /\ Len(ptyWritten) = 1

(***************************************************************************)
(* The title-refresh counter.                                              *)
(***************************************************************************)
\* the iteration's event is taken from poll_event and handled in this step
EventHandled == pc = "poll" /\ event'.type \in {"Key", "Resize", "None"}

\* C23: the tick counter advances once per event-loop iteration whatever
\* event that iteration handled, and outside the handling of an event it
\* does not move; the working directory is re-checked, and the title
\* refreshed only if the directory changed, only on a tick that is a
\* multiple of the cadence.
C23_TickEveryIteration ==
    [][/\ EventHandled => COUNTER' = COUNTER + 1
       /\ ~EventHandled => COUNTER' = COUNTER
       /\ (pc = "poll" /\ term'.current_dir # term.current_dir)
            => COUNTER' % TitleCadence = 0
       /\ (pc = "poll" /\ renderer'.title # renderer.title)
            => term'.current_dir # term.current_dir]_vars

(***************************************************************************)
(* What a renderer resize leaves alone.                                    *)
(***************************************************************************)
\* title, status-bar visibility flag, raw-debug flag
Kept(r) == <<r.title, r.show_status_bar, r.raw_mode>>

\* C24: a renderer resize changes only the dimension fields and the Screen
\* Model: after resize(width, height) the width and the height are the
\* arguments, and the title, the status-bar visibility flag and the
\* raw-debug flag are what they were before it, and a second resize to the
\* same size changes nothing more; this holds of every resize a Resize
\* event brings about, hence of any sequence of resizes.
C24_ResizeKeepsRenderState ==
    [][ScreenModelResized
        => /\ Kept(renderer') = Kept(renderer)
           /\ renderer'.width = event.width
           /\ renderer'.height = event.height
           /\ resize(renderer', event.width, event.height) = renderer']_vars

\* with the status bar hidden, the debug echo on and the title derived from
\* the working directory, Resize(100, 40) was handled: all three are as
\* they were, the dimensions are new
C24_Witness ==
    /\ pc = "render"
    /\ event = ResizeEvent(100, 40)
    /\ renderer.width = 100
    /\ renderer.height = 40
    /\ ~renderer.show_status_bar
    /\ renderer.raw_mode
    /\ renderer.title # TerminalRenderer_new(0, 0).title

(***************************************************************************)
(* Where a repaint leaves the real cursor.                                 *)
(***************************************************************************)
\* the chrome rows above the content: the title bar (cursor_y + 1)
RowsAbove == 1

\* the last command of the frame
LastCommand == frame[Len(frame)]

\* C25: at the end of every render() (a render() that returns; one that
\* panics on the status row never reaches its end) the real cursor is
\* placed at column = the Screen Model cursor's column and row = the Screen
\* Model cursor's row plus the chrome rows above the content (1, the title
\* bar): the frame's last command is that MoveTo; and render() leaves the
\* Screen Model, the title and the flags (the whole renderer) as they were.
C25_CursorAfterRender ==
    [][pc = "rendering" /\ result' # "panic"
        => /\ frame' # <<>>
           /\ frame'[Len(frame')] =
                MoveTo(Parser_screen(renderer.parser).cursor[2],
                       Parser_screen(renderer.parser).cursor[1] + RowsAbove)
           /\ renderer' = renderer]_vars

\* a grid of one column took two characters, its cursor stands in row 1 at
\* column 1: the repaint ends with the real cursor at column 1 of row 2
C25_Witness ==
    /\ pc = "loop"
    /\ frame # <<>>
    /\ Parser_screen(renderer.parser).cursor = <<1, 1>>
    /\ LastCommand = MoveTo(1, 2)

(***************************************************************************)
(* Keyboard input on its way to the child.                                 *)
(***************************************************************************)
\* the iteration takes a key event in this step
KeyTaken == pc = "poll" /\ event'.type = "Key"

\* C26: keyboard input reaches the child in order and unbuffered.  The
\* step that handles a forwarded key appends the key's whole translated
\* sequence to what the PTY has been given (written and flushed) before
\* the loop goes on to repaint and poll again; the PTY's bytes change in no
\* other step, so they are the concatenation of the translated sequences in
\* key-event order, nothing dropped, duplicated or interleaved.  A write
\* that fails leaves a proper prefix of that key's sequence and ends the
\* session: no further event is polled.
C26_InputInOrder ==
    [][/\ (KeyTaken /\ pc' = "render")
            => /\ input_bytes' = process_key_input(event'.key)
               /\ ptyWritten' = ptyWritten \o process_key_input(event'.key)
       /\ (KeyTaken /\ pc' = "report")
            => /\ result' = "write"
               /\ \E n \in 0 .. (Len(process_key_input(event'.key)) - 1) :
                     ptyWritten' = ptyWritten \o SubSeq(process_key_input(event'.key), 1, n)
       /\ ptyWritten' # ptyWritten => KeyTaken /\ ~IsShortcut(event'.key)
       /\ result = "write" => (pc' # "poll" /\ ptyWritten' = ptyWritten)]_vars

\* Up, then 'a', then Enter were typed, with the debug echo toggled in
\* between: the PTY got ESC [ A a CR, in that order
C26_Witness ==
    /\ pc = "render"
    /\ event = KeyEvent(Key("Enter", 0, {}))
    /\ renderer.raw_mode
    /\ ptyWritten = <<ESC, 91, 65, 97, 13>>

(***************************************************************************)
(* The command lines of the built-in help.                                 *)
(***************************************************************************)
\* the line is `cp -r <source>`: three words, the first cp, the second -r
IsCpRecursiveForm ==
    /\ Len(split_whitespace(line)) = 3
    /\ split_whitespace(line)[1] = <<"c", "p">>
    /\ split_whitespace(line)[2] = <<"-", "r">>

\* C27: the command line `cp -r <source>`, the form the built-in help
\* documents for recursive copy, is parsed as the recursive-copy command
\* (CpR) and not as a plain copy whose source is "-r".
C27_CpRecursiveParsed ==
    (command # NotParsed /\ IsCpRecursiveForm)
        => /\ command.ok
           /\ command.name = "CpR"
           /\ command.a # <<"-", "r">>

(***************************************************************************)
(* The size the PTY holds.                                                 *)
(***************************************************************************)
\* PtySize {rows: 24, cols: 80, ..} of openpty
OpenSize == [rows |-> 24, cols |-> 80]

\* C28: the size set on the PTY changes only when a Resize event is
\* handled, and then to the event's height and width: open() sets 24 rows
\* by 80 columns whatever the real terminal size passed to Terminal::new,
\* no other step touches it, so it is 24 x 80 until the first Resize
\* event; toggling the status bar (which changes the Screen Model's row
\* count) or the raw-debug flag leaves it unchanged.
C28_PtySizeOnlyOnResize ==
    [][/\ pc = "start" /\ pc' = "enable_raw" => ptySize' = OpenSize
       /\ (ptySize' # ptySize /\ pc # "start")
            => /\ pc = "poll"
               /\ event'.type = "Resize"
               /\ ptySize' = [rows |-> event'.height, cols |-> event'.width]
       /\ (ToggleHandled(CtrlB) \/ ToggleHandled(CtrlR)) => ptySize' = ptySize]_vars

\* the real terminal is 100 x 40, the status bar was just hidden so that
\* the grid has 39 rows, and the PTY still says 24 x 80
C28_Witness ==
    /\ pc = "loop"
    /\ event = KeyEvent(CtrlB)
    /\ term.width = 100
    /\ term.height = 40
    /\ renderer.parser.rows = 39
    /\ ptySize = OpenSize

(***************************************************************************)
(* The three locks: PTY reader, PTY writer, renderer.                      *)
(***************************************************************************)
\* the locks reader thread i holds
ReaderHolds(i) ==
    (IF ptyReaderLock = i THEN {"pty reader"} ELSE {})
    \cup (IF readers[i].pc = "process" THEN {"renderer"} ELSE {})

\* the locks the main thread holds between its steps; the PTY writer's is
\* taken and released inside the step that writes
MainHolds == IF rendererLock = "main" THEN {"renderer"} ELSE {}

\* the reader thread sits in reader.read with nothing to read
BlockedInRead(i) ==
    readers[i].pc = "reading" /\ ptyReaderLock = i /\ consumed = Len(childOut)

\* C29: the locking is deadlock-free.  Neither thread ever requests one of
\* the three locks while holding another: no thread holds two locks; the
\* reader thread takes the PTY reader lock holding none and has released
\* it when its callback takes the renderer lock; the main thread takes the
\* renderer lock holding none and holds none when it writes to the PTY or
\* changes the renderer.  Hence a reader blocked in a pending read holds
\* only the PTY reader lock, which the main thread never asks for: the main
\* thread can then take the renderer lock to render, and can write input.
C29_NoNestedLocks ==
    /\ [](/\ \A i \in DOMAIN readers : Cardinality(ReaderHolds(i)) <= 1
          /\ ptyReaderLock # 0 => /\ ptyReaderLock \in DOMAIN readers
                                  /\ readers[ptyReaderLock].pc = "reading"
          /\ \A i \in DOMAIN readers :
                BlockedInRead(i)
                    => /\ rendererLock # "reader"
                       /\ pc = "render" => ENABLED RenderLock
                       /\ (pc = "poll" /\ Len(ptyWritten) < MaxWritten)
                            => ENABLED ForwardKey(Key("Char", 97, {})))
    /\ [][/\ \A i \in DOMAIN readers :
                /\ (ptyReaderLock' = i /\ ptyReaderLock # i) => ReaderHolds(i) = {}
                /\ (readers'[i].pc = "process" /\ readers[i].pc # "process")
                     => ReaderHolds(i) = {}
          /\ (rendererLock' = "main" /\ rendererLock # "main") => MainHolds = {}
          /\ ptyWritten' # ptyWritten => MainHolds = {}
          /\ ptySize' # ptySize => MainHolds = {}
          /\ (renderer' # renderer /\ readers' = readers) => MainHolds = {}]_vars

\* the reader thread is blocked in read, holding the PTY reader lock, after
\* all of the child's output was processed; meanwhile the main thread has
\* written the key 'a' to the PTY and is inside render, holding the
\* renderer lock
C29_Witness ==
    /\ \E i \in DOMAIN readers : BlockedInRead(i)
    /\ renderer.parser.fed = childOut
    /\ pc = "rendering"
    /\ rendererLock = "main"
    /\ event = KeyEvent(Key("Char", 97, {}))
    /\ ptyWritten = <<97>>

(***************************************************************************)
(* What survives a new Screen Model.                                       *)
(***************************************************************************)
\* the step replaces the Screen Model: the renderer half of a Resize event
\* or the status-bar toggle
ScreenModelReplaced == ScreenModelResized \/ ToggleHandled(CtrlB)

\* C30: every renderer resize and every status-bar toggle replaces the
\* Screen Model with a fresh one: right afterwards the Parser has been fed
\* nothing, no cell is written (every cell reads as the blank cell) and the
\* cursor is at (0, 0), whatever the grid held before, a resize to the
\* current dimensions included.
C30_FreshScreenModel ==
    [][ScreenModelReplaced
        => /\ renderer'.parser.fed = <<>>
           /\ DOMAIN Parser_screen(renderer'.parser).cells = {}
           /\ Screen_cell(Parser_screen(renderer'.parser), 0, 0) = BlankCell
           /\ Parser_screen(renderer'.parser).cursor = <<0, 0>>]_vars

\* all of the child's output had been read and processed when Ctrl+B hid
\* the status bar: the grid of 23 rows holds nothing of it
C30_Witness ==
    /\ pc = "loop"
    /\ event = KeyEvent(CtrlB)
    /\ ~renderer.show_status_bar
    /\ renderer.parser.rows = 23
    /\ consumed = Len(childOut)
    /\ \A i \in DOMAIN readers : readers[i].pc \in {"read", "reading", "done"}
    /\ readers # <<>>
    /\ renderer.parser.fed = <<>>

(***************************************************************************)
(* The rows one repaint writes to.                                         *)
(***************************************************************************)
\* the rows the content loop moved to
ContentRowsPainted == {frame[i].y : i \in ContentIdx \cap At("MoveTo")}

\* the rows render_status_bar moved to: the MoveTo commands after the
\* ResetColor that ends the content, the final cursor move left out
StatusRowsPainted ==
    LET first == Least(At("ResetColor"))
        second == Least({i \in At("ResetColor") : i > first})
    IN  {frame[i].y : i \in {j \in At("MoveTo") : second < j /\ j < Len(frame)}}

\* C31: for every terminal size, heights 0 and 1 included, render()
\* computes its rows without unsigned underflow or overflow (no panic of
\* the checked build, no wrapped row beyond the terminal), and the title
\* bar (row 0), the content rows and the status bar occupy pairwise
\* distinct rows.
C31_RowsDistinctNoUnderflow ==
    /\ result # "panic"
    /\ frame # <<>> =>
        /\ \A y \in StatusRowsPainted : y < renderer.height
        /\ 0 \notin ContentRowsPainted \cup StatusRowsPainted
        /\ ContentRowsPainted \cap StatusRowsPainted = {}

(***************************************************************************)
(* map_vt100_color over the 256-colour palette: a grid of one cell whose   *)
(* foreground or background was selected by index is painted.              *)
(***************************************************************************)
\* the indexes of the palette beyond the sixteen named colours
PaletteIndexes == 16 .. 255

\* n in decimal, as the bytes of a control sequence
decimal(n) ==
    (IF n >= 100 THEN <<48 + (n \div 100)>> ELSE <<>>)
    \o (IF n >= 10 THEN <<48 + ((n \div 10) % 10)>> ELSE <<>>)
    \o <<48 + (n % 10)>>

\* ESC [ 38 ; 5 ; n m (foreground) or ESC [ 48 ; 5 ; n m (background), then "H"
PaletteStreams ==
    {<<ESC, 91, 48 + 3 + ground, 56, 59, 53, 59>> \o decimal(n) \o <<109, 72>> :
        n \in PaletteIndexes, ground \in {0, 1}}

InitColor ==
    /\ pc = "rendering"
    /\ result = "none"
    /\ exitStatus = -1
    /\ diagnostic = FALSE
    /\ rawMode = TRUE
    /\ altScreen = TRUE
    /\ disableRawCalls = 0
    /\ leaveAltCalls = 0
    /\ renderer \in {process_output(TerminalRenderer_new(1, 3), fed) : fed \in PaletteStreams}
    /\ term = [width |-> renderer.width, height |-> renderer.height, running |-> TRUE,
               current_dir |-> StartDir]
    /\ COUNTER = 0
    /\ event = NoneEvent
    /\ input_bytes = NotTranslated
    /\ ptyWritten = <<>>
    /\ ptySize = [rows |-> 24, cols |-> 80]
    /\ rendererLock = "main"
    /\ ptyReaderLock = 0
    /\ readers = <<NewReader>>
    /\ childOut = renderer.parser.fed
    /\ consumed = Len(childOut)
    /\ frame = <<>>
    /\ itersAfterEof = 0
    /\ line = <<>>
    /\ command = NotParsed
    /\ stdin = <<>>
    /\ shellOut = <<>>
    /\ stderr = <<>>
    /\ twin = renderer

NextColor == Render

SpecColor == InitColor /\ [][NextColor]_vars

\* the one cell of the grid
PaletteCell == Screen_cell(Parser_screen(renderer.parser), 0, 0)

\* C32: for every palette index n in 16..255 map_vt100_color computes the
\* RGB components in 8-bit arithmetic without overflow or underflow: for n
\* in 16..231 the components are k*42+36 with k the digits of n-16 in base
\* 6 (each in 0..5), for n in 232..255 all three are (n-232)*10+8; every
\* component is at most 255.
C32_PaletteComponents ==
    frame # <<>> =>
        \A i \in ContentIdx \cap (At("SetForegroundColor") \cup At("SetBackgroundColor")) :
            LET vt == IF frame[i].op = "SetForegroundColor" THEN PaletteCell.fg
                      ELSE PaletteCell.bg
                n == vt.a
                c == frame[i].color
            IN  vt.kind = "Idx" =>
                    /\ n \in PaletteIndexes
                    /\ c.name = "Rgb"
                    /\ {c.r, c.g, c.b} \subseteq 0 .. 255
                    /\ n < 232 =>
                        \E kr, kg, kb \in 0 .. 5 :
                            /\ n - 16 = kr * 36 + kg * 6 + kb
                            /\ c = Color_Rgb(kr * 42 + 36, kg * 42 + 36, kb * 42 + 36)
                    /\ n >= 232 =>
                        LET grey == (n - 232) * 10 + 8
                        IN  c = Color_Rgb(grey, grey, grey)

\* the last grey (index 255), the largest value the arithmetic reaches, was
\* painted as (238, 238, 238)
C32_Witness ==
    /\ frame # <<>>
    /\ PaletteCell.fg = Idx(255)
    /\ \E i \in ContentIdx : frame[i] = SetForegroundColor(Color_Rgb(238, 238, 238))

(***************************************************************************)
(* The renderer under any caller: process_output, resize and               *)
(* toggle_raw_mode called in any order.  A second renderer, twin, is given *)
(* the same process_output and resize calls and its own toggle_raw_mode    *)
(* calls; stderr takes the raw-debug echo of renderer.                     *)
(***************************************************************************)
\* a Parser that holds this many bytes is fed no further chunk
MaxEchoFed == 1

\* most lines of raw-debug echo followed
MaxEchoed == 1

\* the chunks of PTY output: the control bytes 0..15 and 16..31 (ESC among
\* them), DEL, "H", and a byte above 127
EchoChunks == {[i \in 1 .. 16 |-> i - 1], [i \in 1 .. 16 |-> i + 15], <<127>>, <<72>>, <<255>>}

\* (width, height) of the terminals resized to
EchoSizes == {<<2, 3>>, <<3, 4>>}

InitEcho ==
    /\ pc = "loop"
    /\ result = "none"
    /\ exitStatus = -1
    /\ diagnostic = FALSE
    /\ rawMode = TRUE
    /\ altScreen = TRUE
    /\ disableRawCalls = 0
    /\ leaveAltCalls = 0
    /\ term = [width |-> 2, height |-> 3, running |-> TRUE, current_dir |-> StartDir]
    /\ COUNTER = 0
    /\ event = NotPolled
    /\ input_bytes = NotTranslated
    /\ ptyWritten = <<>>
    /\ ptySize = [rows |-> 24, cols |-> 80]
    /\ renderer = TerminalRenderer_new(2, 3)
    /\ rendererLock = "free"
    /\ ptyReaderLock = 0
    /\ readers = <<NewReader>>
    /\ childOut = <<>>
    /\ consumed = 0
    /\ frame = <<>>
    /\ itersAfterEof = 0
    /\ line = <<>>
    /\ command = NotParsed
    /\ stdin = <<>>
    /\ shellOut = <<>>
    /\ stderr = <<>>
    /\ twin = renderer

\* process_output(data) in both runs; the echo of the first is recorded
ProcessOutput(data) ==
    /\ Len(renderer.parser.fed) < MaxEchoFed
    /\ Len(stderr \o raw_echo(renderer, data)) <= MaxEchoed
    /\ renderer' = process_output(renderer, data)
    /\ twin' = process_output(twin, data)
    /\ stderr' = stderr \o raw_echo(renderer, data)
    /\ UNCHANGED <<mainVars, rendererLock, readerVars, itersAfterEof, frame, shellVars>>

\* resize(width, height) in both runs
RendererResize(width, height) ==
    /\ renderer' = resize(renderer, width, height)
    /\ twin' = resize(twin, width, height)
    /\ UNCHANGED <<mainVars, rendererLock, readerVars, itersAfterEof, frame, shellVars, stderr>>

\* toggle_raw_mode() in the first run only
RawModeToggled ==
    /\ renderer' = toggle_raw_mode(renderer)
    /\ UNCHANGED <<mainVars, rendererLock, readerVars, itersAfterEof, frame, shellVars, echoVars>>

\* toggle_raw_mode() in the second run only
TwinRawModeToggled ==
    /\ twin' = toggle_raw_mode(twin)
    /\ UNCHANGED <<mainVars, renderer, rendererLock, readerVars, itersAfterEof, frame,
                   shellVars, stderr>>

NextEcho ==
    \/ \E data \in EchoChunks : ProcessOutput(data)
    \/ \E s \in EchoSizes : RendererResize(s[1], s[2])
    \/ RawModeToggled
    \/ TwinRawModeToggled

SpecEcho == InitEcho /\ [][NextEcho]_vars

\* what of a renderer the Screen Model is: grid contents, cursor, dimensions
ScreenModel(r) ==
    [screen |-> Parser_screen(r.parser), width |-> r.width, height |-> r.height]

\* the echo of a control byte as the specification of the debug view has
\* it: "^" and the character 64 above the byte
RECURSIVE CaretNotation(_)
CaretNotation(data) ==
    IF data = <<>> THEN <<>>
    ELSE (IF Head(data) < 32 \/ Head(data) = 127
          THEN <<94, Head(data) + 64>>
          ELSE <<Head(data)>>) \o CaretNotation(Tail(data))

\* C33: the raw-debug flag does not influence the Screen Model: two runs
\* given the same process_output and resize calls that differ only in when
\* toggle_raw_mode is called have the same grid contents, cursor position
\* and dimensions at every step; and the echo of a byte in 0..31 or 127
\* is "^" and byte + 64, a value that fits 8 bits.
C33_RawFlagNoInfluence ==
    /\ [](ScreenModel(renderer) = ScreenModel(twin))
    /\ [][\A data \in EchoChunks :
            renderer.raw_mode /\ renderer' = process_output(renderer, data)
                              /\ renderer' # renderer
            => /\ stderr' = Append(stderr, CaretNotation(data))
               /\ \A i \in 1 .. Len(CaretNotation(data)) : CaretNotation(data)[i] <= 255]_vars

\* the first run echoed DEL as "^" and the character 191 and fed it to its
\* Parser while the second run, its flag clear, fed the same byte
C33_Witness ==
    /\ stderr = <<<<94, 191>>>>
    /\ renderer.raw_mode /\ ~twin.raw_mode
    /\ renderer.parser.fed = <<127>>
    /\ twin.parser.fed = <<127>>

(***************************************************************************)
(* The child's loop and its standard input.                                *)
(***************************************************************************)
\* the line reader reports the end of input or a read error in this step:
\* the loop leaves next_line without taking a line
ReaderReportsEnd == pc = "next_line" /\ pc' # "next_line" /\ stdin' = stdin

\* C34: the child's read loop terminates when its standard input ends:
\* once the line reader reports end-of-input (or a read error) the loop
\* exits instead of prompting again.
C34_LoopEndsWithInput ==
    [][ReaderReportsEnd => pc' = "exited"]_vars

\* the loop handles a line in this step
LineHandled == pc = "handle" /\ pc' # "handle"

\* C35: a line that fails to parse (unknown command, missing arguments) or
\* whose command fails to execute never ends the loop and runs no later
\* command step: the error is printed, nothing else, and the loop is back
\* at the prompt; of the lines read, only a successfully parsed exit ends
\* the loop.
C35_FailedLineKeepsLoop ==
    [][/\ LineHandled =>
            /\ ~try_from(line).ok => command' = try_from(line)
            /\ ~command'.ok =>
                /\ pc' = "prompt"
                /\ shellOut' = Append(shellOut, "Error")
                /\ exitStatus' = exitStatus
            /\ pc' = "exited" <=> command' = Ok("Exit", <<>>, <<>>)
       /\ pc = "next_line" => pc' # "exited"]_vars

\* cp without arguments was answered with an error and the next prompt;
\* the loop waits for the next line
C35_Witness ==
    /\ pc = "next_line"
    /\ line = <<"c", "p">>
    /\ command = Err("cp command requires source and destination arguments")
    /\ shellOut = <<"prompt", "Error", "prompt">>
    /\ stdin # <<>>

(***************************************************************************)
(* Characters beyond one byte.                                             *)
(***************************************************************************)
\* C36: every character key without a Ctrl-letter match, characters whose
\* code point is above 255 included, is translated to exactly one byte:
\* the code point modulo 256 (the byte b of 0..255 with code point =
\* 256 * q + b).
C36_CharIsCodePointMod256 ==
    (/\ event.type = "Key"
     /\ event.key.kind = "Char"
     /\ ~("CONTROL" \in event.key.mods /\ IsLetter(event.key.arg)))
        => /\ Len(input_bytes) = 1
           /\ input_bytes[1] \in 0 .. 255
           /\ \E q \in 0 .. (event.key.arg \div 256) :
                event.key.arg = 256 * q + input_bytes[1]

\* the euro sign (U+20AC) has been translated to the one byte 0xAC
C36_Witness ==
    /\ event = KeyEvent(Key("Char", 8364, {}))
    /\ input_bytes = <<172>>

====
